---- MODULE Spec2Model ----
(***************************************************************************)
(* Learning Pulse persona pipeline (be/file-processor/learning_pulse):     *)
(* feature extraction, guardrails, and the predict-persona request path.   *)
(*                                                                         *)
(* Python floats are modelled as IEEE-754 doubles (see below).             *)
(* Optional[T] values are modelled as sequences: None is <<>> and a present *)
(* value x is <<x>>.                                                        *)
(***************************************************************************)
EXTENDS Integers, Sequences, FiniteSets, TLC

VARIABLES
    _feature_extractor,      \* router.py module global (None or an instance)
    _persona_classifier,     \* router.py module global (None or an instance)
    _logic_guardrails,       \* router.py module global (None or an instance)
    _recommendation_engine,  \* router.py module global (None or an instance)
    _initialized,            \* router.py module global readiness flag
    pc,                      \* position of the current call
    data,                    \* Optional BehaviorData handed to extract
    features,                \* Optional FeatureVector (extract's return value)
    classification,          \* Optional ClassificationResult (prediction)
    aux,                     \* Optional arguments of the current direct call
    calls,                   \* the _check_* methods apply invoked, in order
    guardrail_result,        \* Optional GuardrailResult
    request,                 \* Optional PredictRequest
    response,                \* Optional HTTP outcome of predict_persona
    raised                   \* exception escaping the last direct call ("" if none)

vars == <<_feature_extractor, _persona_classifier, _logic_guardrails,
          _recommendation_engine, _initialized, pc, data, features,
          classification, aux, calls, guardrail_result, request, response,
          raised>>

None == <<>>
Some(x) == <<x>>

(***************************************************************************)
(* Python float arithmetic: IEEE-754 binary64 with round-half-to-even.     *)
(* A float is [s |-> sign, m |-> mantissa, e |-> exponent] and stands for  *)
(* s * m * 2^e, where s is -1, 0 or 1 and m is an odd natural number (the  *)
(* empty number for zero), so that equal floats are equal records.         *)
(* Natural numbers of any size are sequences of limbs in base 2^14, least  *)
(* significant first, without leading zero limbs; <<>> is 0.  Overflow,    *)
(* subnormals, infinities and NaN do not occur at the magnitudes the       *)
(* pipeline handles and are not represented.                                *)
(***************************************************************************)
Base == 2^14

\* x without its leading zero limbs
Trim(x) ==
    CHOOSE r \in
        {SubSeq(v, 1, CHOOSE k \in 0..Len(v) :
                          /\ k = 0 \/ v[k] # 0
                          /\ \A j \in (k + 1)..Len(v) : v[j] = 0) :
             v \in {x}} : TRUE

\* The limbs of c[i] + c[i+1] * Base + ... + carry, for entries of any size
RECURSIVE Carry(_, _, _)
Carry(c, i, carry) ==
    CHOOSE r \in
        {IF i > Len(v)
         THEN IF t = 0 THEN <<>>
              ELSE <<t % Base>> \o Carry(v, i, t \div Base)
         ELSE <<(v[i] + t) % Base>>
                  \o Carry(v, i + 1, (v[i] + t) \div Base) :
             v \in {c}, t \in {carry}} : TRUE

BigLimb(x, i) == IF i \in DOMAIN x THEN x[i] ELSE 0

BigAdd(a, b) ==
    CHOOSE r \in
        {Carry([i \in 1..(IF Len(x) > Len(y) THEN Len(x) ELSE Len(y)) |->
                   BigLimb(x, i) + BigLimb(y, i)], 1, 0) :
             x \in {a}, y \in {b}} : TRUE

\* a - b for a >= b
BigSub(a, b) ==
    CHOOSE r \in
        {Trim(Carry([i \in 1..Len(x) |-> x[i] - BigLimb(y, i)], 1, 0)) :
             x \in {a}, y \in {b}} : TRUE

RECURSIVE BigMulTerms(_, _, _, _)
BigMulTerms(a, b, k, i) ==
    IF i > Len(a) \/ i > k THEN 0
    ELSE BigLimb(b, k + 1 - i) * a[i] + BigMulTerms(a, b, k, i + 1)

\* a * b for factors of at most four limbs
BigMul(a, b) ==
    CHOOSE r \in
        {IF x = <<>> \/ y = <<>> THEN <<>>
         ELSE Carry([k \in 1..(Len(x) + Len(y) - 1) |->
                        BigMulTerms(x, y, k, 1)], 1, 0) :
             x \in {a}, y \in {b}} : TRUE

\* -1, 0 or 1 as a < b, a = b or a > b
BigCmp(a, b) ==
    CHOOSE r \in
        {IF Len(x) # Len(y) THEN (IF Len(x) < Len(y) THEN -1 ELSE 1)
         ELSE IF x = y THEN 0
         ELSE IF \E i \in DOMAIN x :
                     /\ x[i] < y[i]
                     /\ \A j \in (i + 1)..Len(x) : x[j] = y[j]
              THEN -1 ELSE 1 :
             x \in {a}, y \in {b}} : TRUE

\* a * 2^k
BigShl(a, k) ==
    CHOOSE r \in
        {IF x = <<>> THEN <<>>
         ELSE [i \in 1..(k \div 14) |-> 0]
                  \o Carry([i \in DOMAIN x |-> x[i] * 2^(k % 14)], 1, 0) :
             x \in {a}} : TRUE

\* a \div 2^k
BigShr(a, k) ==
    CHOOSE r \in
        {IF Len(x) <= (k \div 14) THEN <<>>
         ELSE Trim([i \in 1..(Len(x) - (k \div 14)) |->
                       (x[i + (k \div 14)] \div 2^(k % 14))
                           + (BigLimb(x, i + (k \div 14) + 1) % 2^(k % 14))
                                 * 2^(14 - (k % 14))]) :
             x \in {a}} : TRUE

\* bit k of a, counting from 0
BigBit(a, k) == (BigLimb(a, (k \div 14) + 1) \div 2^(k % 14)) % 2

\* a % 2^k = 0
BigLowZero(a, k) ==
    /\ \A i \in 1..(k \div 14) : BigLimb(a, i) = 0
    /\ BigLimb(a, (k \div 14) + 1) % 2^(k % 14) = 0

\* the number of bits of a
BigLen(a) ==
    IF a = <<>> THEN 0
    ELSE 14 * (Len(a) - 1)
             + (CHOOSE k \in 1..14 : 2^(k - 1) <= a[Len(a)] /\ a[Len(a)] < 2^k)

\* the number of trailing zero bits of a # 0
BigTrailingZeros(a) ==
    CHOOSE t \in 0..(14 * Len(a)) : BigBit(a, t) = 1 /\ BigLowZero(a, t)

\* <<remainder>> \o quotient of the limbs 1..i of a, carried in r, by a
\* one-limb divisor d
RECURSIVE BigShortDiv(_, _, _, _)
BigShortDiv(a, d, i, r) ==
    CHOOSE q \in
        {IF i = 0 THEN <<t>>
         ELSE BigShortDiv(x, d, i - 1, (t * Base + x[i]) % d)
                  \o <<(t * Base + x[i]) \div d>> :
             x \in {a}, t \in {r}} : TRUE

\* n more quotient bits of r / d for r < d, appended to q:
\* <<remainder, quotient>>
RECURSIVE BigLongDiv(_, _, _, _)
BigLongDiv(r, d, n, q) ==
    IF n = 0 THEN <<r, q>>
    ELSE CHOOSE result \in
             {IF ge THEN BigLongDiv(BigSub(r2, y), y, n - 1, BigAdd(q2, <<1>>))
              ELSE BigLongDiv(r2, y, n - 1, q2) :
                 r2 \in {BigAdd(r, r)}, q2 \in {BigAdd(q, q)}, y \in {d},
                 ge \in {BigCmp(BigAdd(r, r), d) >= 0}} : TRUE

\* 14 more quotient bits of qr[1] / d, appended to qr[2]
BigLongDiv14(qr, d) == BigLongDiv(qr[1], d, 14, qr[2])

\* p / q to 56 bits or more for p and q of the same bit length, in four
\* runs of 14 bits:
\* [q |-> quotient, e |-> e, sticky |-> the division left a remainder]
BigDivideAligned(p, q, e) ==
    CHOOSE r \in
        {[q |-> qr[2], e |-> e, sticky |-> qr[1] # <<>>] :
            qr \in {BigLongDiv14(c, q) :
                c \in {BigLongDiv14(b, q) :
                    b \in {BigLongDiv14(a, q) :
                        a \in {BigLongDiv14(
                            <<IF BigCmp(p, q) >= 0 THEN BigSub(p, q) ELSE p,
                              IF BigCmp(p, q) >= 0 THEN <<1>> ELSE <<>> >>,
                            q)}}}}} :
        TRUE

\* n / d = q * 2^e, q carried to 56 bits or more.  A one-limb divisor
\* divides n * 2^70 limb by limb; any other divides bit by bit after the
\* operands are aligned at their top bits.
BigDivide(n, d) ==
    IF Len(d) = 1
    THEN CHOOSE r \in
             {[q |-> Trim(Tail(qr)), e |-> -70, sticky |-> qr[1] # 0] :
                 qr \in {BigShortDiv(<<0, 0, 0, 0, 0>> \o n, d[1],
                                     Len(n) + 5, 0)}} : TRUE
    ELSE BigDivideAligned(
             BigShl(n, IF BigLen(d) > BigLen(n)
                       THEN BigLen(d) - BigLen(n) ELSE 0),
             BigShl(d, IF BigLen(n) > BigLen(d)
                       THEN BigLen(n) - BigLen(d) ELSE 0),
             BigLen(n) - BigLen(d) - 56)

Zero == [s |-> 0, m |-> <<>>, e |-> 0]

\* s * n * 2^e with the trailing zero bits of n moved into the exponent
FCanon(s, n, e) ==
    CHOOSE r \in
        {IF x = <<>> THEN Zero
         ELSE [s |-> s, m |-> BigShr(x, BigTrailingZeros(x)),
               e |-> e + BigTrailingZeros(x)] :
             x \in {n}} : TRUE

\* Rounding n to the multiple of 2^sh below it goes up: the dropped part is
\* above a half, or is a half and the kept part is odd (ties to even)
RoundsUp(n, sh, sticky) ==
    /\ sh > 0
    /\ BigBit(n, sh - 1) = 1
    /\ \/ ~BigLowZero(n, sh - 1)
       \/ sticky
       \/ BigBit(n, sh) = 1

\* s * (n + fraction) * 2^e with n rounded to the multiple of 2^sh
FRoundAt(s, n, e, sticky, sh) ==
    FCanon(s, BigAdd(BigShr(n, sh),
                     IF RoundsUp(n, sh, sticky) THEN <<1>> ELSE <<>>),
           e + sh)

\* s * (n + fraction) * 2^e rounded to 53 bits, ties to even; sticky says
\* that a nonzero fraction below n was dropped
FRound(s, n, e, sticky) ==
    CHOOSE r \in
        {FRoundAt(s, x, e, sticky,
                  IF BigLen(x) > 53 THEN BigLen(x) - 53 ELSE 0) :
             x \in {n}} : TRUE

\* float(k) for an int k
I(k) ==
    IF k = 0 THEN Zero
    ELSE FCanon(IF k < 0 THEN -1 ELSE 1,
                Carry(<<>>, 1, IF k < 0 THEN -k ELSE k), 0)

\* The operators on floats evaluate each operand once and work on its value
FNeg(a) == CHOOSE r \in {[x EXCEPT !.s = -x.s] : x \in {a}} : TRUE

\* The position of the top bit of a # 0
FTop(a) == BigLen(a.m) + a.e

MinInt(a, b) == IF a < b THEN a ELSE b

\* -1, 0 or 1 as a < b, a = b or a > b
FCmp(a, b) ==
    CHOOSE r \in
        {IF x = y THEN 0
         ELSE IF x.s # y.s THEN (IF x.s < y.s THEN -1 ELSE 1)
         ELSE IF FTop(x) # FTop(y)
         THEN (IF FTop(x) < FTop(y) THEN -x.s ELSE x.s)
         ELSE x.s * BigCmp(BigShl(x.m, x.e - MinInt(x.e, y.e)),
                           BigShl(y.m, y.e - MinInt(x.e, y.e))) :
             x \in {a}, y \in {b}} : TRUE

FLt(a, b) == FCmp(a, b) < 0

FLe(a, b) == FCmp(a, b) <= 0

FGt(a, b) == FCmp(a, b) > 0

FGe(a, b) == FCmp(a, b) >= 0

\* sp * p * 2^e + sq * q * 2^e
FAddAligned(sp, p, sq, q, e) ==
    CHOOSE r \in
        {FRound(IF sp = sq \/ BigCmp(u, w) >= 0 THEN sp ELSE sq,
                IF sp = sq THEN BigAdd(u, w)
                ELSE IF BigCmp(u, w) >= 0 THEN BigSub(u, w)
                ELSE BigSub(w, u),
                e, FALSE) :
             u \in {p}, w \in {q}} : TRUE

\* a + b
FAdd(a, b) ==
    CHOOSE r \in
        {IF x.s = 0 THEN y
         ELSE IF y.s = 0 THEN x
         ELSE FAddAligned(x.s, BigShl(x.m, x.e - MinInt(x.e, y.e)),
                          y.s, BigShl(y.m, y.e - MinInt(x.e, y.e)),
                          MinInt(x.e, y.e)) :
             x \in {a}, y \in {b}} : TRUE

\* a - b
FSub(a, b) == FAdd(a, FNeg(b))

\* a * b
FMul(a, b) ==
    CHOOSE r \in
        {IF x.s = 0 \/ y.s = 0 THEN Zero
         ELSE FRound(x.s * y.s, BigMul(x.m, y.m), x.e + y.e, FALSE) :
             x \in {a}, y \in {b}} : TRUE

\* s * (n / d) * 2^e
FQuotient(s, n, d, e) ==
    CHOOSE r \in
        {FRound(s, t.q, e + t.e, t.sticky) : t \in {BigDivide(n, d)}} : TRUE

\* a / b for b # 0
FDiv(a, b) ==
    CHOOSE r \in
        {IF x.s = 0 THEN Zero
         ELSE FQuotient(x.s * y.s, x.m, y.m, x.e - y.e) :
             x \in {a}, y \in {b}} : TRUE

\* min(a, b) and max(a, b) as Python evaluates them: the first argument
\* unless the second is smaller (larger)
FMin(a, b) ==
    CHOOSE r \in {IF FLt(y, x) THEN y ELSE x : x \in {a}, y \in {b}} : TRUE

FMax(a, b) ==
    CHOOSE r \in {IF FGt(y, x) THEN y ELSE x : x \in {a}, y \in {b}} : TRUE

\* The float nearest to n / d: the value of the literal written n/d in
\* decimal, and of the true division of the ints n and d
Fl(n, d) == FDiv(I(n), I(d))

One == I(1)

Half == Fl(1, 2)

(***************************************************************************)
(* models.py: enumerations                                                 *)
(***************************************************************************)
SKIMMER == "skimmer"

STRUGGLER == "struggler"

ANXIOUS == "anxious"

BURNOUT == "burnout"

MASTER == "master"

PROCRASTINATOR == "procrastinator"

DEEP_DIVER == "deep_diver"

SOCIAL_LEARNER == "social_learner"

PERFECTIONIST == "perfectionist"

LOST == "lost"

\* list(LearningPersona): the members in definition order
LearningPersona == <<SKIMMER, STRUGGLER, ANXIOUS, BURNOUT, MASTER,
                     PROCRASTINATOR, DEEP_DIVER, SOCIAL_LEARNER,
                     PERFECTIONIST, LOST>>

Personas == {LearningPersona[i] : i \in DOMAIN LearningPersona}

EngagementTrend == [INCREASING |-> "increasing", STABLE |-> "stable",
                    DECLINING |-> "declining"]

(***************************************************************************)
(* models.py: input behaviour models with their defaults                   *)
(***************************************************************************)
ChatBehavior == [total_messages |-> 0, user_messages |-> 0,
                 assistant_messages |-> 0, question_count |-> 0,
                 avg_message_length |-> Zero, thumbs_up_count |-> 0,
                 thumbs_down_count |-> 0, unique_sessions |-> 0,
                 total_session_duration_minutes |-> Zero]

MaterialInteraction == [total_time_spent_seconds |-> 0, total_views |-> 0,
                        unique_materials_viewed |-> 0, bookmark_count |-> 0,
                        avg_scroll_depth |-> Half]

ActivityPattern == [active_days |-> 0, total_sessions |-> 0, peak_hour |-> 12,
                    late_night_sessions |-> 0, weekend_sessions |-> 0,
                    total_weekday_sessions |-> 0,
                    daily_activity_variance |-> Zero]

BehaviorData == [user_id |-> "test-user", analysis_period_days |-> 30,
                 chat |-> ChatBehavior, material |-> MaterialInteraction,
                 activity |-> ActivityPattern, quiz |-> None]

(***************************************************************************)
(* feature_extractor.py: normalisation constants and helpers               *)
(***************************************************************************)
MAX_MESSAGE_LENGTH == 500

MAX_SESSIONS == 100

MAX_SESSION_DURATION == 600

MAX_TIME_SPENT == 36000

MAX_VIEWS == 200

MAX_SESSIONS_PER_DAY == 10

MAX_QUIZ_ATTEMPTS == 50

\* numerator / denominator, or default when the denominator is zero
_safe_divide(numerator, denominator, default) ==
    IF denominator.s = 0 THEN default ELSE FDiv(numerator, denominator)

\* min(1.0, max(0.0, value / max_value)), 0.0 when max_value <= 0
_normalize(value, max_value) ==
    IF FLe(max_value, Zero) THEN Zero
    ELSE FMin(One, FMax(Zero, FDiv(value, max_value)))

_extract_chat_features(d) ==
    LET chat == d.chat
        chat_message_ratio ==
            _safe_divide(I(chat.user_messages), I(chat.total_messages), Half)
        question_frequency ==
            FMin(One, _safe_divide(I(chat.question_count),
                                   I(chat.user_messages), Zero))
        avg_message_length_norm ==
            _normalize(chat.avg_message_length, I(MAX_MESSAGE_LENGTH))
        total_feedback == chat.thumbs_up_count + chat.thumbs_down_count
        feedback_ratio ==
            _safe_divide(I(chat.thumbs_up_count), I(total_feedback), Half)
        feedback_engagement ==
            FMin(One, _safe_divide(I(total_feedback),
                                   I(chat.total_messages), Zero))
        session_count_norm ==
            _normalize(I(chat.unique_sessions), I(MAX_SESSIONS))
        raw_messages_per_session ==
            _safe_divide(I(chat.total_messages), I(chat.unique_sessions), Zero)
        messages_per_session == _normalize(raw_messages_per_session, I(20))
        session_duration_norm ==
            _normalize(chat.total_session_duration_minutes,
                       I(MAX_SESSION_DURATION))
    IN  [chat_message_ratio |-> chat_message_ratio,
         question_frequency |-> question_frequency,
         avg_message_length_norm |-> avg_message_length_norm,
         feedback_ratio |-> feedback_ratio,
         feedback_engagement |-> feedback_engagement,
         session_count_norm |-> session_count_norm,
         messages_per_session |-> messages_per_session,
         session_duration_norm |-> session_duration_norm]

\* Faulty variant of _extract_material_features: the composite score is
\* built from the bookmark ratio before it is capped
_extract_material_features_raw_bookmarks(d) ==
    LET material == d.material
        time_spent_norm ==
            _normalize(I(material.total_time_spent_seconds), I(MAX_TIME_SPENT))
        view_count_norm == _normalize(I(material.total_views), I(MAX_VIEWS))
        material_diversity ==
            FMin(One, _safe_divide(I(material.unique_materials_viewed),
                                   I(material.total_views), Zero))
        avg_time_per_view ==
            _safe_divide(I(material.total_time_spent_seconds),
                         I(material.total_views), Zero)
        avg_time_per_view_norm == _normalize(avg_time_per_view, I(600))
        raw_bookmark_ratio ==
            _safe_divide(I(material.bookmark_count),
                         I(material.total_views), Zero)
        bookmark_ratio == FMin(One, raw_bookmark_ratio)
        scroll_depth == FMax(Zero, FMin(One, material.avg_scroll_depth))
        material_engagement_score ==
            FMax(Zero, FMin(One,
                FAdd(FAdd(FMul(Fl(2, 5), time_spent_norm),
                          FMul(Fl(2, 5), scroll_depth)),
                     FMul(Fl(1, 5), raw_bookmark_ratio))))
    IN  [time_spent_norm |-> time_spent_norm,
         view_count_norm |-> view_count_norm,
         material_diversity |-> material_diversity,
         avg_time_per_view_norm |-> avg_time_per_view_norm,
         bookmark_ratio |-> bookmark_ratio,
         scroll_depth |-> scroll_depth,
         material_engagement_score |-> material_engagement_score]

_extract_material_features(d) ==
    LET material == d.material
        time_spent_norm ==
            _normalize(I(material.total_time_spent_seconds), I(MAX_TIME_SPENT))
        view_count_norm == _normalize(I(material.total_views), I(MAX_VIEWS))
        material_diversity ==
            FMin(One, _safe_divide(I(material.unique_materials_viewed),
                                   I(material.total_views), Zero))
        avg_time_per_view ==
            _safe_divide(I(material.total_time_spent_seconds),
                         I(material.total_views), Zero)
        avg_time_per_view_norm == _normalize(avg_time_per_view, I(600))
        bookmark_ratio ==
            FMin(One, _safe_divide(I(material.bookmark_count),
                                   I(material.total_views), Zero))
        scroll_depth == FMax(Zero, FMin(One, material.avg_scroll_depth))
        material_engagement_score ==
            FMax(Zero, FMin(One,
                FAdd(FAdd(FMul(Fl(2, 5), time_spent_norm),
                          FMul(Fl(2, 5), scroll_depth)),
                     FMul(Fl(1, 5), bookmark_ratio))))
    IN  [time_spent_norm |-> time_spent_norm,
         view_count_norm |-> view_count_norm,
         material_diversity |-> material_diversity,
         avg_time_per_view_norm |-> avg_time_per_view_norm,
         bookmark_ratio |-> bookmark_ratio,
         scroll_depth |-> scroll_depth,
         material_engagement_score |-> material_engagement_score]

\* Faulty variant of _calculate_engagement_trend: the scores are counted
\* even when there are no sessions
_calculate_engagement_trend_sessions_unchecked(d) ==
    LET activity == d.activity
        session_frequency ==
            _safe_divide(I(activity.total_sessions), I(activity.active_days),
                         Zero)
        active_days_ratio ==
            _safe_divide(I(activity.active_days), I(d.analysis_period_days),
                         Zero)
        late_night_ratio ==
            _safe_divide(I(activity.late_night_sessions),
                         I(activity.total_sessions), Zero)
        variance == activity.daily_activity_variance
        declining_score ==
              (IF FGt(variance, I(5)) THEN 1 ELSE 0)
            + (IF FLt(active_days_ratio, Fl(3, 10))
                  /\ activity.total_sessions > 0 THEN 1 ELSE 0)
            + (IF ~FGt(session_frequency, I(2))
                  /\ FLt(session_frequency, Half)
                  /\ activity.active_days > 0 THEN 1 ELSE 0)
            + (IF FGt(late_night_ratio, Fl(2, 5)) THEN 1 ELSE 0)
        increasing_score ==
              (IF ~FGt(variance, I(5)) /\ FLt(variance, I(2)) THEN 1 ELSE 0)
            + (IF ~(FLt(active_days_ratio, Fl(3, 10))
                    /\ activity.total_sessions > 0)
                  /\ FGt(active_days_ratio, Fl(3, 5)) THEN 1 ELSE 0)
            + (IF FGt(session_frequency, I(2)) THEN 1 ELSE 0)
    IN  IF declining_score >= 2 THEN EngagementTrend.DECLINING
        ELSE IF increasing_score >= 2 THEN EngagementTrend.INCREASING
        ELSE EngagementTrend.STABLE

\* Faulty variant of _calculate_engagement_trend: the increasing score is
\* tested before the declining score
_calculate_engagement_trend_increasing_first(d) ==
    LET activity == d.activity
        session_frequency ==
            _safe_divide(I(activity.total_sessions), I(activity.active_days),
                         Zero)
        active_days_ratio ==
            _safe_divide(I(activity.active_days), I(d.analysis_period_days),
                         Zero)
        late_night_ratio ==
            _safe_divide(I(activity.late_night_sessions),
                         I(activity.total_sessions), Zero)
        variance == activity.daily_activity_variance
        declining_score ==
              (IF FGt(variance, I(5)) THEN 1 ELSE 0)
            + (IF FLt(active_days_ratio, Fl(3, 10))
                  /\ activity.total_sessions > 0 THEN 1 ELSE 0)
            + (IF ~FGt(session_frequency, I(2))
                  /\ FLt(session_frequency, Half)
                  /\ activity.active_days > 0 THEN 1 ELSE 0)
            + (IF FGt(late_night_ratio, Fl(2, 5)) THEN 1 ELSE 0)
        increasing_score ==
              (IF ~FGt(variance, I(5)) /\ FLt(variance, I(2)) THEN 1 ELSE 0)
            + (IF ~(FLt(active_days_ratio, Fl(3, 10))
                    /\ activity.total_sessions > 0)
                  /\ FGt(active_days_ratio, Fl(3, 5)) THEN 1 ELSE 0)
            + (IF FGt(session_frequency, I(2)) THEN 1 ELSE 0)
    IN  IF activity.total_sessions = 0 THEN EngagementTrend.STABLE
        ELSE IF increasing_score >= 2 THEN EngagementTrend.INCREASING
        ELSE IF declining_score >= 2 THEN EngagementTrend.DECLINING
        ELSE EngagementTrend.STABLE

_calculate_engagement_trend(d) ==
    LET activity == d.activity
        session_frequency ==
            _safe_divide(I(activity.total_sessions), I(activity.active_days),
                         Zero)
        active_days_ratio ==
            _safe_divide(I(activity.active_days), I(d.analysis_period_days),
                         Zero)
        late_night_ratio ==
            _safe_divide(I(activity.late_night_sessions),
                         I(activity.total_sessions), Zero)
        variance == activity.daily_activity_variance
        declining_score ==
              (IF FGt(variance, I(5)) THEN 1 ELSE 0)
            + (IF FLt(active_days_ratio, Fl(3, 10))
                  /\ activity.total_sessions > 0 THEN 1 ELSE 0)
            + (IF ~FGt(session_frequency, I(2))
                  /\ FLt(session_frequency, Half)
                  /\ activity.active_days > 0 THEN 1 ELSE 0)
            + (IF FGt(late_night_ratio, Fl(2, 5)) THEN 1 ELSE 0)
        increasing_score ==
              (IF ~FGt(variance, I(5)) /\ FLt(variance, I(2)) THEN 1 ELSE 0)
            + (IF ~(FLt(active_days_ratio, Fl(3, 10))
                    /\ activity.total_sessions > 0)
                  /\ FGt(active_days_ratio, Fl(3, 5)) THEN 1 ELSE 0)
            + (IF FGt(session_frequency, I(2)) THEN 1 ELSE 0)
    IN  IF activity.total_sessions = 0 THEN EngagementTrend.STABLE
        ELSE IF declining_score >= 2 THEN EngagementTrend.DECLINING
        ELSE IF increasing_score >= 2 THEN EngagementTrend.INCREASING
        ELSE EngagementTrend.STABLE

_extract_activity_features(d) ==
    LET activity == d.activity
        active_days_ratio ==
            FMin(One, _safe_divide(I(activity.active_days),
                                   I(d.analysis_period_days), Zero))
        raw_session_frequency ==
            _safe_divide(I(activity.total_sessions), I(activity.active_days),
                         Zero)
        session_frequency ==
            _normalize(raw_session_frequency, I(MAX_SESSIONS_PER_DAY))
        normalized_variance ==
            _normalize(activity.daily_activity_variance, I(10))
        consistency_score ==
            FMax(Zero, FMin(One, FSub(One, normalized_variance)))
        late_night_ratio ==
            FMin(One, _safe_divide(I(activity.late_night_sessions),
                                   I(activity.total_sessions), Zero))
        weekend_ratio ==
            FMin(One, _safe_divide(I(activity.weekend_sessions),
                                   I(activity.total_sessions), Zero))
        peak_hour_norm ==
            FMax(Zero, FMin(One, IF activity.peak_hour <= 23
                                 THEN Fl(activity.peak_hour, 23) ELSE One))
        engagement_trend == _calculate_engagement_trend(d)
        engagement_trend_encoded ==
            IF engagement_trend = EngagementTrend.DECLINING THEN Zero
            ELSE IF engagement_trend = EngagementTrend.STABLE THEN Half
            ELSE One
    IN  [active_days_ratio |-> active_days_ratio,
         session_frequency |-> session_frequency,
         consistency_score |-> consistency_score,
         late_night_ratio |-> late_night_ratio,
         weekend_ratio |-> weekend_ratio,
         peak_hour_norm |-> peak_hour_norm,
         engagement_trend_encoded |-> engagement_trend_encoded]

\* Faulty variant of _extract_quiz_features: a quiz record with no attempts
\* is read as real scores
_extract_quiz_features_zero_attempts_scored(d) ==
    IF d.quiz = None
    THEN [quiz_score_norm |-> Half, quiz_completion_norm |-> Half,
          quiz_attempt_frequency |-> Zero]
    ELSE LET quiz == d.quiz[1]
         IN  [quiz_score_norm |->
                  FMax(Zero, FMin(One, FDiv(quiz.avg_score, I(100)))),
              quiz_completion_norm |->
                  FMax(Zero, FMin(One, quiz.completion_rate)),
              quiz_attempt_frequency |->
                  _normalize(I(quiz.quiz_attempts), I(MAX_QUIZ_ATTEMPTS))]

_extract_quiz_features(d) ==
    IF d.quiz = None
    THEN [quiz_score_norm |-> Half, quiz_completion_norm |-> Half,
          quiz_attempt_frequency |-> Zero]
    ELSE LET quiz == d.quiz[1]
             quiz_score_norm ==
                 IF quiz.quiz_attempts = 0 THEN Half
                 ELSE FMax(Zero, FMin(One, FDiv(quiz.avg_score, I(100))))
             quiz_completion_norm ==
                 IF quiz.quiz_attempts = 0 THEN Half
                 ELSE FMax(Zero, FMin(One, quiz.completion_rate))
             quiz_attempt_frequency ==
                 _normalize(I(quiz.quiz_attempts), I(MAX_QUIZ_ATTEMPTS))
         IN  [quiz_score_norm |-> quiz_score_norm,
              quiz_completion_norm |-> quiz_completion_norm,
              quiz_attempt_frequency |-> quiz_attempt_frequency]

\* The 25 field names of the FeatureVector schema, in schema order
FeatureNames ==
    <<"chat_message_ratio", "question_frequency", "avg_message_length_norm",
      "feedback_ratio", "feedback_engagement", "session_count_norm",
      "messages_per_session", "session_duration_norm",
      "time_spent_norm", "view_count_norm", "material_diversity",
      "avg_time_per_view_norm", "bookmark_ratio", "scroll_depth",
      "material_engagement_score",
      "active_days_ratio", "session_frequency", "consistency_score",
      "late_night_ratio", "weekend_ratio", "peak_hour_norm",
      "engagement_trend_encoded",
      "quiz_score_norm", "quiz_completion_norm", "quiz_attempt_frequency">>

FeatureNameSet == {FeatureNames[i] : i \in DOMAIN FeatureNames}

\* Field(ge=0.0, le=1.0)
FieldInRange(x) == FGe(x, Zero) /\ FLe(x, One)

\* FeatureVector(**fields): pydantic validation of the 25 constrained fields.
\* Returns the vector, or raises ValidationError (raised # "").
FeatureVector(fields) ==
    IF \A f \in FeatureNameSet : FieldInRange(fields[f])
    THEN [raised |-> "", value |-> Some(fields)]
    ELSE [raised |-> "ValidationError", value |-> None]

\* The keyword arguments extract hands to FeatureVector(...)
ExtractedFields(d) ==
    _extract_chat_features(d) @@ _extract_material_features(d)
        @@ _extract_activity_features(d) @@ _extract_quiz_features(d)

\* FeatureExtractor.extract
extract(d) == FeatureVector(ExtractedFields(d))

(***************************************************************************)
(* guardrails.py: LogicGuardrails                                          *)
(***************************************************************************)
MASTER_MIN_QUIZ_SCORE == 50

SKIMMER_MIN_TIME_PER_MATERIAL == 300

DEEP_DIVER_MIN_MATERIALS == 3

ANXIOUS_LATE_NIGHT_THRESHOLD == Fl(1, 2)

\* GuardrailOverride(original_persona, final_persona, rule_triggered, reason);
\* the f-string reason is kept as its template with the measured value and
\* the threshold it embeds.
GuardrailOverride(original_persona, final_persona, rule_triggered, reason) ==
    [original_persona |-> original_persona, final_persona |-> final_persona,
     rule_triggered |-> rule_triggered, reason |-> reason]

\* Faulty variant of _check_master_override: the boundary score 50 overrides
_check_master_override_inclusive(prediction, quiz_score) ==
    IF prediction.persona # MASTER THEN None
    ELSE IF quiz_score # None /\ FLe(quiz_score[1], I(MASTER_MIN_QUIZ_SCORE))
    THEN Some(GuardrailOverride(MASTER, STRUGGLER, "master_low_quiz_score",
              [template |-> "Quiz score is below threshold for Master classification",
               value |-> quiz_score[1],
               threshold |-> I(MASTER_MIN_QUIZ_SCORE)]))
    ELSE None

\* Rule 1: persona is Master and a provided quiz_score is below 50
_check_master_override(prediction, quiz_score) ==
    IF prediction.persona # MASTER THEN None
    ELSE IF quiz_score # None /\ FLt(quiz_score[1], I(MASTER_MIN_QUIZ_SCORE))
    THEN Some(GuardrailOverride(MASTER, STRUGGLER, "master_low_quiz_score",
              [template |-> "Quiz score is below threshold for Master classification",
               value |-> quiz_score[1],
               threshold |-> I(MASTER_MIN_QUIZ_SCORE)]))
    ELSE None

\* Faulty variant of _check_skimmer_reconsideration: exactly 300 s overrides
_check_skimmer_reconsideration_inclusive(prediction, avg_time_per_material) ==
    IF prediction.persona # SKIMMER THEN None
    ELSE IF FGe(avg_time_per_material, I(SKIMMER_MIN_TIME_PER_MATERIAL))
    THEN Some(GuardrailOverride(SKIMMER, DEEP_DIVER,
              "skimmer_high_time_per_material",
              [template |-> "Average time per material exceeds threshold, reconsidering classification",
               value |-> avg_time_per_material,
               threshold |-> I(SKIMMER_MIN_TIME_PER_MATERIAL)]))
    ELSE None

\* Rule 3: persona is Skimmer and avg_time_per_material exceeds 300 s
_check_skimmer_reconsideration(prediction, avg_time_per_material) ==
    IF prediction.persona # SKIMMER THEN None
    ELSE IF FGt(avg_time_per_material, I(SKIMMER_MIN_TIME_PER_MATERIAL))
    THEN Some(GuardrailOverride(SKIMMER, DEEP_DIVER,
              "skimmer_high_time_per_material",
              [template |-> "Average time per material exceeds threshold, reconsidering classification",
               value |-> avg_time_per_material,
               threshold |-> I(SKIMMER_MIN_TIME_PER_MATERIAL)]))
    ELSE None

\* Faulty variant of _check_deep_diver_override: exactly 3 materials overrides
_check_deep_diver_override_inclusive(prediction, total_materials_viewed) ==
    IF prediction.persona # DEEP_DIVER THEN None
    ELSE IF total_materials_viewed <= DEEP_DIVER_MIN_MATERIALS
    THEN Some(GuardrailOverride(DEEP_DIVER, LOST,
              "deep_diver_low_material_count",
              [template |-> "Total materials viewed is below minimum for Deep Diver classification",
               value |-> I(total_materials_viewed),
               threshold |-> I(DEEP_DIVER_MIN_MATERIALS)]))
    ELSE None

\* Rule 2: persona is Deep Diver and fewer than 3 materials were viewed
_check_deep_diver_override(prediction, total_materials_viewed) ==
    IF prediction.persona # DEEP_DIVER THEN None
    ELSE IF total_materials_viewed < DEEP_DIVER_MIN_MATERIALS
    THEN Some(GuardrailOverride(DEEP_DIVER, LOST,
              "deep_diver_low_material_count",
              [template |-> "Total materials viewed is below minimum for Deep Diver classification",
               value |-> I(total_materials_viewed),
               threshold |-> I(DEEP_DIVER_MIN_MATERIALS)]))
    ELSE None

\* Faulty variant of _check_anxious_flags: the thresholds are inclusive
_check_anxious_flags_inclusive(fv) ==
    IF FGe(fv.late_night_ratio, ANXIOUS_LATE_NIGHT_THRESHOLD)
       /\ FGe(fv.session_frequency, Fl(3, 10))
    THEN <<[template |-> "High late-night activity combined with frequent sessions indicates potential anxiety",
            value |-> fv.late_night_ratio]>>
    ELSE <<>>

\* late_night_ratio > 0.5 and (normalised) session_frequency > 0.3
_check_anxious_flags(fv) ==
    IF FGt(fv.late_night_ratio, ANXIOUS_LATE_NIGHT_THRESHOLD)
       /\ FGt(fv.session_frequency, Fl(3, 10))
    THEN <<[template |-> "High late-night activity combined with frequent sessions indicates potential anxiety",
            value |-> fv.late_night_ratio]>>
    ELSE <<>>

\* Faulty variant of _check_burnout_flags: any previous persona counts and
\* the trend threshold is inclusive
_check_burnout_flags_loose(fv, previous_persona) ==
    IF FLe(fv.engagement_trend_encoded, Fl(1, 4)) /\ previous_persona # None
    THEN <<[template |-> "Declining engagement trend from previous Master classification indicates potential burnout",
            value |-> fv.engagement_trend_encoded]>>
    ELSE <<>>

\* engagement_trend_encoded < 0.25 and previous_persona == MASTER
_check_burnout_flags(fv, previous_persona) ==
    LET is_declining == FLt(fv.engagement_trend_encoded, Fl(1, 4))
    IN  IF is_declining /\ previous_persona = Some(MASTER)
        THEN <<[template |-> "Declining engagement trend from previous Master classification indicates potential burnout",
                value |-> fv.engagement_trend_encoded]>>
        ELSE <<>>

\* Faulty variant of OverrideChain: the skimmer rule runs first and each later
\* rule is tried against the persona the earlier override produced
OverrideChainCascading(prediction, quiz_score, total_materials_viewed, avg_time_per_material) ==
    LET o3 == _check_skimmer_reconsideration(prediction,
                                             avg_time_per_material)
        p2 == IF o3 # None
              THEN [prediction EXCEPT !.persona = o3[1].final_persona]
              ELSE prediction
        o2 == _check_deep_diver_override(p2, total_materials_viewed)
        p1 == IF o2 # None
              THEN [p2 EXCEPT !.persona = o2[1].final_persona]
              ELSE p2
        o1 == _check_master_override(p1, quiz_score)
    IN  [override |-> IF o1 # None THEN o1 ELSE IF o2 # None THEN o2 ELSE o3,
         calls |-> <<"_check_skimmer_reconsideration",
                     "_check_deep_diver_override",
                     "_check_master_override">>]

\* apply, lines 68-83: the override rules in priority order, each tried only
\* while no override has been produced; calls lists the checks invoked.
OverrideChain(prediction, quiz_score, total_materials_viewed, avg_time_per_material) ==
    LET o1 == _check_master_override(prediction, quiz_score)
        o2 == IF o1 = None
              THEN _check_deep_diver_override(prediction,
                                              total_materials_viewed)
              ELSE o1
        o3 == IF o2 = None
              THEN _check_skimmer_reconsideration(prediction,
                                                  avg_time_per_material)
              ELSE o2
    IN  [override |-> o3,
         calls |-> <<"_check_master_override">>
                   \o (IF o1 = None THEN <<"_check_deep_diver_override">>
                       ELSE <<>>)
                   \o (IF o2 = None THEN <<"_check_skimmer_reconsideration">>
                       ELSE <<>>)]

\* Faulty variant of ResultConfidence: the result reports full confidence
ResultConfidenceCertain(prediction) == One

\* confidence stored in the GuardrailResult (line 115)
ResultConfidence(prediction) == prediction.confidence

\* Faulty variant of apply: needs_attention follows the two flags only and
\* an override contributes a reason string
apply_attention_from_flags_only(prediction, fv, quiz_score, previous_persona, total_materials_viewed, avg_time_per_material) ==
    LET override == OverrideChain(prediction, quiz_score,
                                  total_materials_viewed,
                                  avg_time_per_material).override
        was_overridden == override # None
        anxious_flags == _check_anxious_flags(fv)
        burnout_flags == _check_burnout_flags(fv, previous_persona)
        flag_reasons == anxious_flags \o burnout_flags
    IN  [persona |-> IF was_overridden THEN override[1].final_persona
                     ELSE prediction.persona,
         confidence |-> ResultConfidence(prediction),
         was_overridden |-> was_overridden,
         override |-> override,
         flags |-> [potential_anxious |-> Len(anxious_flags) > 0,
                    potential_burnout |-> Len(burnout_flags) > 0,
                    needs_attention |-> Len(flag_reasons) > 0,
                    flag_reasons |->
                        flag_reasons
                        \o (IF was_overridden THEN <<override[1].reason>>
                            ELSE <<>>)]]

\* Faulty variant of apply: the flag rules are skipped once an override fired
apply_flags_skipped_on_override(prediction, fv, quiz_score, previous_persona, total_materials_viewed, avg_time_per_material) ==
    LET override == OverrideChain(prediction, quiz_score,
                                  total_materials_viewed,
                                  avg_time_per_material).override
        was_overridden == override # None
        anxious_flags == IF was_overridden THEN <<>>
                         ELSE _check_anxious_flags(fv)
        burnout_flags == IF was_overridden THEN <<>>
                         ELSE _check_burnout_flags(fv, previous_persona)
        flag_reasons == anxious_flags \o burnout_flags
    IN  [persona |-> IF was_overridden THEN override[1].final_persona
                     ELSE prediction.persona,
         confidence |-> ResultConfidence(prediction),
         was_overridden |-> was_overridden,
         override |-> override,
         flags |-> [potential_anxious |-> Len(anxious_flags) > 0,
                    potential_burnout |-> Len(burnout_flags) > 0,
                    needs_attention |->
                        Len(flag_reasons) > 0 \/ was_overridden,
                    flag_reasons |-> flag_reasons]]

\* LogicGuardrails.apply
apply(prediction, fv, quiz_score, previous_persona, total_materials_viewed, avg_time_per_material) ==
    LET override == OverrideChain(prediction, quiz_score,
                                  total_materials_viewed,
                                  avg_time_per_material).override
        final_persona == IF override # None THEN override[1].final_persona
                         ELSE prediction.persona
        was_overridden == override # None
        anxious_flags == _check_anxious_flags(fv)
        burnout_flags == _check_burnout_flags(fv, previous_persona)
        flag_reasons == anxious_flags \o burnout_flags
        flags == [potential_anxious |-> Len(anxious_flags) > 0,
                  potential_burnout |-> Len(burnout_flags) > 0,
                  needs_attention |-> Len(flag_reasons) > 0 \/ was_overridden,
                  flag_reasons |-> flag_reasons]
    IN  [persona |-> final_persona,
         confidence |-> ResultConfidence(prediction),
         was_overridden |-> was_overridden,
         override |-> override,
         flags |-> flags]

(***************************************************************************)
(* persona_classifier.py: PersonaClassifier                                *)
(*                                                                         *)
(* The trained model is an external artefact.  A loaded model is a record *)
(* [cls, proba]: the class model.predict returns and the 10-element       *)
(* probability array model.predict_proba returns for every input.  The    *)
(* class is an integer, [index |-> i], or a string, [label |-> s].         *)
(*                                                                         *)
(* A path string is modelled together with what the disk holds under it:  *)
(* [name, exists, content].                                                *)
(***************************************************************************)
LOW_CONFIDENCE_THRESHOLD == Fl(1, 2)

\* A path to nothing, to a file that cannot be loaded (content None), or to
\* a file holding x
MissingFile == [name |-> "missing", exists |-> FALSE, content |-> None]

CorruptFile == [name |-> "corrupt", exists |-> TRUE, content |-> None]

FileWith(x) == [name |-> "file", exists |-> TRUE, content |-> Some(x)]

\* The empty string: Path("") is the current directory
EmptyPath == [name |-> "", exists |-> TRUE, content |-> None]

\* "if path:" for an Optional[str]: neither None nor the empty string
Truthy(path) == path # None /\ path[1].name # ""

\* PersonaClassifier.__init__ before any load (lines 62-66)
NewClassifier == [model |-> None, scaler |-> None, _model_version |-> "0.0.0",
                  _last_training_date |-> "unknown", _persona_names |-> <<>>]

\* PersonaClassifier._load_model: [raised, self]
_load_model(self, model_file) ==
    IF ~model_file.exists THEN [raised |-> "FileNotFoundError", self |-> self]
    ELSE IF model_file.content = None
    THEN [raised |-> "Exception", self |-> [self EXCEPT !.model = None]]
    ELSE [raised |-> "", self |-> [self EXCEPT !.model = model_file.content]]

\* Faulty variant of _load_scaler: a missing scaler file is skipped, as
\* FeatureExtractor._load_scaler does
_load_scaler_missing_ignored(self, scaler_file) ==
    IF ~scaler_file.exists THEN [raised |-> "", self |-> self]
    ELSE IF scaler_file.content = None
    THEN [raised |-> "Exception", self |-> [self EXCEPT !.scaler = None]]
    ELSE [raised |-> "", self |-> [self EXCEPT !.scaler = scaler_file.content]]

\* PersonaClassifier._load_scaler: [raised, self]
_load_scaler(self, scaler_file) ==
    IF ~scaler_file.exists THEN [raised |-> "FileNotFoundError", self |-> self]
    ELSE IF scaler_file.content = None
    THEN [raised |-> "Exception", self |-> [self EXCEPT !.scaler = None]]
    ELSE [raised |-> "", self |-> [self EXCEPT !.scaler = scaler_file.content]]

\* PersonaClassifier._load_metadata: never raises
_load_metadata(self, metadata_file) ==
    IF ~metadata_file.exists \/ metadata_file.content = None THEN self
    ELSE LET metadata == metadata_file.content[1]
         IN  [self EXCEPT
                !._model_version = metadata.model_version,
                !._last_training_date = metadata.training_date,
                !._persona_names =
                    IF self._persona_names = <<>>
                    THEN metadata.persona_names ELSE self._persona_names]

\* PersonaClassifier(model_path, scaler_path, metadata_path): each path is
\* optional (None or "" skips its load); an exception of _load_model or
\* _load_scaler escapes the constructor.  [raised, value]
PersonaClassifier(model_path, scaler_path, metadata_path) ==
    LET m == IF Truthy(model_path)
             THEN _load_model(NewClassifier, model_path[1])
             ELSE [raised |-> "", self |-> NewClassifier]
        s == IF Truthy(scaler_path)
             THEN _load_scaler(m.self, scaler_path[1])
             ELSE [raised |-> "", self |-> m.self]
    IN  IF m.raised # "" THEN [raised |-> m.raised, value |-> None]
        ELSE IF s.raised # "" THEN [raised |-> s.raised, value |-> None]
        ELSE [raised |-> "",
              value |-> Some(IF Truthy(metadata_path)
                             THEN _load_metadata(s.self, metadata_path[1])
                             ELSE s.self)]

is_loaded(self) == self.model # None

\* max(probabilities)
RECURSIVE MaxOf(_)
MaxOf(seq) ==
    IF Len(seq) = 1 THEN seq[1] ELSE FMax(seq[1], MaxOf(Tail(seq)))

\* dict(zip(names, probabilities)): a later duplicate name overwrites
ZipDict(names, probabilities) ==
    LET k == MinInt(Len(names), Len(probabilities))
    IN  [name \in {names[i] : i \in 1..k} |->
            probabilities[CHOOSE i \in 1..k :
                /\ names[i] = name
                /\ \A j \in 1..k : names[j] = name => j <= i]]

_build_probability_dict(self, probabilities) ==
    IF self._persona_names # <<>>
    THEN ZipDict(self._persona_names, probabilities)
    ELSE ZipDict(LearningPersona, probabilities)

\* LearningPersona(name): [raised, value]
ParsePersona(name) ==
    IF name \in Personas THEN [raised |-> "", value |-> Some(name)]
    ELSE [raised |-> "ValueError", value |-> None]

\* isinstance(predicted_class, str)
IsStr(predicted_class) == "label" \in DOMAIN predicted_class

\* Lines 313-328: the class index, through persona_names or the enum order
ConvertIndex(self, idx) ==
    IF self._persona_names # <<>> /\ 0 <= idx /\ idx < Len(self._persona_names)
    THEN ParsePersona(self._persona_names[idx + 1])
    ELSE IF 0 <= idx /\ idx < Len(LearningPersona)
    THEN [raised |-> "", value |-> Some(LearningPersona[idx + 1])]
    ELSE [raised |-> "ValueError", value |-> None]

\* PersonaClassifier._convert_to_persona: [raised, value]
_convert_to_persona(self, predicted_class) ==
    IF IsStr(predicted_class) THEN ParsePersona(predicted_class.label)
    ELSE ConvertIndex(self, predicted_class.index)

\* Faulty variant of _feature_vector_to_array: session_count_norm and
\* messages_per_session change places
_feature_vector_to_array_swapped(fv) ==
    <<fv.chat_message_ratio, fv.question_frequency,
      fv.avg_message_length_norm, fv.feedback_ratio, fv.feedback_engagement,
      fv.messages_per_session, fv.session_count_norm,
      fv.session_duration_norm,
      fv.time_spent_norm, fv.view_count_norm, fv.material_diversity,
      fv.avg_time_per_view_norm, fv.bookmark_ratio, fv.scroll_depth,
      fv.material_engagement_score,
      fv.active_days_ratio, fv.session_frequency, fv.consistency_score,
      fv.late_night_ratio, fv.weekend_ratio, fv.peak_hour_norm,
      fv.engagement_trend_encoded,
      fv.quiz_score_norm, fv.quiz_completion_norm,
      fv.quiz_attempt_frequency>>

\* PersonaClassifier._feature_vector_to_array
_feature_vector_to_array(fv) ==
    <<fv.chat_message_ratio, fv.question_frequency,
      fv.avg_message_length_norm, fv.feedback_ratio, fv.feedback_engagement,
      fv.session_count_norm, fv.messages_per_session,
      fv.session_duration_norm,
      fv.time_spent_norm, fv.view_count_norm, fv.material_diversity,
      fv.avg_time_per_view_norm, fv.bookmark_ratio, fv.scroll_depth,
      fv.material_engagement_score,
      fv.active_days_ratio, fv.session_frequency, fv.consistency_score,
      fv.late_night_ratio, fv.weekend_ratio, fv.peak_hour_norm,
      fv.engagement_trend_encoded,
      fv.quiz_score_norm, fv.quiz_completion_norm,
      fv.quiz_attempt_frequency>>

\* ClassificationResult(...): pydantic validation of confidence
ClassificationResult(persona, confidence, probabilities, is_low_confidence) ==
    IF FieldInRange(confidence)
    THEN [raised |-> "",
          value |-> Some([persona |-> persona, confidence |-> confidence,
                          probabilities |-> probabilities,
                          is_low_confidence |-> is_low_confidence])]
    ELSE [raised |-> "ValidationError", value |-> None]

\* Faulty variant of predict: a confidence of exactly 0.5 counts as low
predict_low_at_threshold(self, fv) ==
    IF ~is_loaded(self) THEN [raised |-> "RuntimeError", value |-> None]
    ELSE LET model == self.model[1]
             probabilities == model.proba
             prob_dict == _build_probability_dict(self, probabilities)
             confidence == MaxOf(probabilities)
             persona == _convert_to_persona(self, model.cls)
             is_low_confidence == FLe(confidence, LOW_CONFIDENCE_THRESHOLD)
         IN  IF persona.raised # ""
             THEN [raised |-> persona.raised, value |-> None]
             ELSE ClassificationResult(persona.value[1], confidence, prob_dict,
                                       is_low_confidence)

\* Faulty variant of predict: without a model it answers the first persona
\* with an even distribution instead of raising
predict_default_when_unloaded(self, fv) ==
    IF ~is_loaded(self)
    THEN ClassificationResult(LearningPersona[1], Fl(1, 10), [p \in Personas |-> Fl(1, 10)], TRUE)
    ELSE LET model == self.model[1]
             probabilities == model.proba
             prob_dict == _build_probability_dict(self, probabilities)
             confidence == MaxOf(probabilities)
             persona == _convert_to_persona(self, model.cls)
             is_low_confidence == FLt(confidence, LOW_CONFIDENCE_THRESHOLD)
         IN  IF persona.raised # ""
             THEN [raised |-> persona.raised, value |-> None]
             ELSE ClassificationResult(persona.value[1], confidence, prob_dict,
                                       is_low_confidence)

\* PersonaClassifier.predict: [raised, value]
predict(self, fv) ==
    IF ~is_loaded(self) THEN [raised |-> "RuntimeError", value |-> None]
    ELSE LET feature_array == _feature_vector_to_array(fv)
             model == self.model[1]
             predicted_class == model.cls
             probabilities == model.proba
             prob_dict == _build_probability_dict(self, probabilities)
             confidence == MaxOf(probabilities)
             persona == _convert_to_persona(self, predicted_class)
             is_low_confidence == FLt(confidence, LOW_CONFIDENCE_THRESHOLD)
         IN  IF persona.raised # ""
             THEN [raised |-> persona.raised, value |-> None]
             ELSE ClassificationResult(persona.value[1], confidence, prob_dict,
                                       is_low_confidence)

\* PersonaClassifier.predict_proba: [raised, value]
predict_proba(self, fv) ==
    IF ~is_loaded(self) THEN [raised |-> "RuntimeError", value |-> None]
    ELSE LET feature_array == _feature_vector_to_array(fv)
             probabilities == self.model[1].proba
         IN  [raised |-> "",
              value |-> Some(_build_probability_dict(self, probabilities))]

(***************************************************************************)
(* recommendations.py: RecommendationEngine (ids, action types and         *)
(* priorities of the static table; titles and descriptions are fixed text) *)
(***************************************************************************)
Recommendation(id, action_type, priority) ==
    [id |-> id, action_type |-> action_type, priority |-> priority]

_persona_recommendations ==
    [p \in Personas |->
       [persona |-> p,
        recommendations |->
          CASE p = STRUGGLER ->
                 <<Recommendation("struggler_simplified_materials", "content", 1),
                   Recommendation("struggler_more_examples", "content", 2),
                   Recommendation("struggler_llm_explanations", "feature", 3),
                   Recommendation("struggler_review_basics", "content", 4)>>
            [] p = SKIMMER ->
                 <<Recommendation("skimmer_engagement_prompts", "ui", 1),
                   Recommendation("skimmer_quizzes", "feature", 2),
                   Recommendation("skimmer_summary_highlights", "content", 3),
                   Recommendation("skimmer_slow_down_reminder", "notification", 4)>>
            [] p = ANXIOUS ->
                 <<Recommendation("anxious_calming_ui", "ui", 1),
                   Recommendation("anxious_progress_indicators", "ui", 2),
                   Recommendation("anxious_encouragement", "notification", 3),
                   Recommendation("anxious_breathing_break", "feature", 4)>>
            [] p = BURNOUT ->
                 <<Recommendation("burnout_break_reminder", "notification", 1),
                   Recommendation("burnout_lighter_content", "content", 2),
                   Recommendation("burnout_celebrate_achievements", "ui", 3),
                   Recommendation("burnout_reduce_workload", "feature", 4)>>
            [] p = MASTER ->
                 <<Recommendation("master_advanced_materials", "content", 1),
                   Recommendation("master_peer_tutoring", "feature", 2),
                   Recommendation("master_challenge_content", "content", 3),
                   Recommendation("master_explore_related", "content", 4)>>
            [] p = PROCRASTINATOR ->
                 <<Recommendation("procrastinator_deadline_reminders", "notification", 1),
                   Recommendation("procrastinator_micro_tasks", "feature", 2),
                   Recommendation("procrastinator_progress_tracking", "ui", 3),
                   Recommendation("procrastinator_schedule_sessions", "feature", 4)>>
            [] p = DEEP_DIVER ->
                 <<Recommendation("deep_diver_supplementary_resources", "content", 1),
                   Recommendation("deep_diver_deep_content", "content", 2),
                   Recommendation("deep_diver_research_opportunities", "feature", 3),
                   Recommendation("deep_diver_expert_connections", "feature", 4)>>
            [] p = SOCIAL_LEARNER ->
                 <<Recommendation("social_learner_study_groups", "feature", 1),
                   Recommendation("social_learner_discussion_forums", "feature", 2),
                   Recommendation("social_learner_collaborative_activities", "feature", 3),
                   Recommendation("social_learner_peer_review", "feature", 4)>>
            [] p = PERFECTIONIST ->
                 <<Recommendation("perfectionist_time_boxing", "feature", 1),
                   Recommendation("perfectionist_good_enough", "notification", 2),
                   Recommendation("perfectionist_celebrate_progress", "ui", 3),
                   Recommendation("perfectionist_limit_reviews", "feature", 4)>>
            [] OTHER ->
                 <<Recommendation("lost_guided_paths", "content", 1),
                   Recommendation("lost_mentor_matching", "feature", 2),
                   Recommendation("lost_foundational_materials", "content", 3),
                   Recommendation("lost_goal_setting", "feature", 4)>>]]

\* Faulty variant of get_recommendations: an unknown persona is answered with
\* the bundle of LOST
get_recommendations_default_bundle(persona) ==
    IF persona \notin DOMAIN _persona_recommendations
    THEN [raised |-> "", value |-> Some(_persona_recommendations[LOST])]
    ELSE [raised |-> "", value |-> Some(_persona_recommendations[persona])]

\* RecommendationEngine.get_recommendations: [raised, value]
get_recommendations(persona) ==
    IF persona \notin DOMAIN _persona_recommendations
    THEN [raised |-> "ValueError", value |-> None]
    ELSE [raised |-> "", value |-> Some(_persona_recommendations[persona])]

(***************************************************************************)
(* train.py                                                                *)
(***************************************************************************)
\* The feature order of the training data, written to the metadata as
\* feature_names
FEATURE_NAMES ==
    <<"chat_message_ratio",
      "question_frequency",
      "avg_message_length_norm",
      "feedback_ratio",
      "feedback_engagement",
      "session_count_norm",
      "messages_per_session",
      "session_duration_norm",
      "time_spent_norm",
      "view_count_norm",
      "material_diversity",
      "avg_time_per_view_norm",
      "bookmark_ratio",
      "scroll_depth",
      "material_engagement_score",
      "active_days_ratio",
      "session_frequency",
      "consistency_score",
      "late_night_ratio",
      "weekend_ratio",
      "peak_hour_norm",
      "engagement_trend_encoded",
      "quiz_score_norm",
      "quiz_completion_norm",
      "quiz_attempt_frequency">>

\* len(FEATURE_NAMES)
NUM_FEATURES == Len(FEATURE_NAMES)

\* The training side's conversion: getattr(fv, name) for name in
\* FEATURE_NAMES
feature_vector_to_array(fv) ==
    [i \in 1..NUM_FEATURES |-> fv[FEATURE_NAMES[i]]]

(***************************************************************************)
(* router.py                                                               *)
(***************************************************************************)
\* Faulty variant of Bucket: a score of exactly 0.33 is "low"
BucketLowInclusive(score) ==
    IF FLe(score, Fl(33, 100)) THEN "low"
    ELSE IF FLt(score, Fl(66, 100)) THEN "medium"
    ELSE "high"

\* "low" below 0.33, "medium" below 0.66, else "high"
Bucket(score) ==
    IF FLt(score, Fl(33, 100)) THEN "low"
    ELSE IF FLt(score, Fl(66, 100)) THEN "medium"
    ELSE "high"

_generate_feature_summary(fv) ==
    LET chat_score ==
            FAdd(FAdd(FAdd(FMul(fv.chat_message_ratio, Fl(3, 10)),
                           FMul(fv.messages_per_session, Fl(3, 10))),
                      FMul(fv.session_count_norm, Fl(2, 10))),
                 FMul(fv.feedback_engagement, Fl(2, 10)))
        material_score ==
            FAdd(FAdd(FAdd(FMul(fv.time_spent_norm, Fl(3, 10)),
                           FMul(fv.view_count_norm, Fl(2, 10))),
                      FMul(fv.scroll_depth, Fl(3, 10))),
                 FMul(fv.material_engagement_score, Fl(2, 10)))
        key_indicators ==
               (IF FGt(fv.question_frequency, Fl(7, 10))
                THEN <<"High question frequency in chat">> ELSE <<>>)
            \o (IF FGt(fv.late_night_ratio, Fl(1, 2))
                THEN <<"Significant late-night activity">> ELSE <<>>)
            \o (IF FGt(fv.scroll_depth, Fl(8, 10))
                THEN <<"Thorough material reading">> ELSE <<>>)
            \o (IF FLt(fv.scroll_depth, Fl(3, 10))
                THEN <<"Quick material scanning">> ELSE <<>>)
            \o (IF FLt(fv.engagement_trend_encoded, Fl(1, 4))
                THEN <<"Declining engagement trend">>
                ELSE IF FGt(fv.engagement_trend_encoded, Fl(3, 4))
                THEN <<"Increasing engagement trend">> ELSE <<>>)
            \o (IF FGt(fv.bookmark_ratio, Fl(1, 2))
                THEN <<"Active bookmarking behavior">> ELSE <<>>)
            \o (IF FGt(fv.quiz_score_norm, Fl(8, 10))
                THEN <<"Strong quiz performance">>
                ELSE IF FLt(fv.quiz_score_norm, Fl(4, 10))
                        /\ FGt(fv.quiz_attempt_frequency, Fl(1, 10))
                THEN <<"Struggling with quizzes">> ELSE <<>>)
            \o (IF FGt(fv.active_days_ratio, Fl(7, 10))
                THEN <<"Consistent daily activity">>
                ELSE IF FLt(fv.active_days_ratio, Fl(2, 10))
                THEN <<"Sporadic activity pattern">> ELSE <<>>)
    IN  [chat_engagement |-> Bucket(chat_score),
         material_consumption |-> Bucket(material_score),
         activity_consistency |-> Bucket(fv.consistency_score),
         key_indicators |-> key_indicators]

\* The readiness test shared by predict_persona (line 182) and health_check
\* (line 260)
Ready ==
    /\ _initialized
    /\ _persona_classifier # None
    /\ is_loaded(_persona_classifier[1])

\* Lines 198-201
AvgTimePerMaterial(material) ==
    IF material.total_views > 0
    THEN Fl(material.total_time_spent_seconds, material.total_views)
    ELSE Zero

\* Faulty variant of PreviousPersona: the caller's string is handed on
\* without being parsed
PreviousPersonaUnparsed(req) ==
    IF req.previous_persona # None /\ req.previous_persona[1] # ""
    THEN req.previous_persona
    ELSE None

\* Lines 204-209: an empty, absent or unrecognised string gives None
PreviousPersona(req) ==
    IF req.previous_persona # None /\ req.previous_persona[1] # ""
    THEN ParsePersona(req.previous_persona[1]).value
    ELSE None

\* Arguments of _logic_guardrails.apply built by predict_persona
GuardrailArgs(req) ==
    [quiz_score |-> req.quiz_score,
     previous_persona |-> PreviousPersona(req),
     total_materials_viewed |->
         req.behavior_data.material.unique_materials_viewed,
     avg_time_per_material |->
         AvgTimePerMaterial(req.behavior_data.material)]

HTTPException(status_code) ==
    [status_code |-> status_code, body |-> None]

\* PredictResponse(...) returned with status 200 (processing_time_ms, a wall
\* clock reading, is left out)
PredictResponse(req, cls, gr, recs, summary) ==
    [status_code |-> 200,
     body |-> Some([user_id |-> req.user_id,
                    persona |-> gr.persona,
                    confidence |-> gr.confidence,
                    is_low_confidence |-> cls.is_low_confidence,
                    recommendations |-> recs.recommendations,
                    feature_summary |-> summary,
                    override_info |-> gr.override,
                    flags |-> gr.flags.flag_reasons])]

\* Line 193: classification, reached only when extraction returned
ClassifyStep(ex) ==
    IF ex.raised = ""
    THEN predict(_persona_classifier[1], ex.value[1])
    ELSE [raised |-> ex.raised, value |-> None]

\* Lines 211-218: the guardrail call, reached only when classification
\* returned
GuardrailStep(ex, cl, args) ==
    IF cl.raised = ""
    THEN Some(apply(cl.value[1], ex.value[1], args.quiz_score, args.previous_persona, args.total_materials_viewed, args.avg_time_per_material))
    ELSE None

\* Faulty variant of RecommendStep: the lookup uses the classifier's persona
RecommendStepOriginalPersona(cl, gr) ==
    IF gr # None THEN get_recommendations(cl.value[1].persona)
    ELSE [raised |-> cl.raised, value |-> None]

\* Lines 221-223
RecommendStep(cl, gr) ==
    IF gr # None THEN get_recommendations(gr[1].persona)
    ELSE [raised |-> cl.raised, value |-> None]

\* The locals of one run of the try block of predict_persona (lines 188-242);
\* a step that raised leaves the later ones at None and the handler of
\* lines 244-249 answers 500.
Pipeline(req, ex, cl, args, gr, recs) ==
    [features |-> ex.value,
     classification |-> cl.value,
     aux |-> IF cl.raised = "" THEN Some(args) ELSE None,
     calls |-> IF cl.raised = ""
               THEN OverrideChain(cl.value[1], args.quiz_score, args.total_materials_viewed, args.avg_time_per_material).calls
               ELSE <<>>,
     guardrail_result |-> gr,
     response |->
         IF recs.raised # "" THEN HTTPException(500)
         ELSE PredictResponse(req, cl.value[1], gr[1], recs.value[1],
                              _generate_feature_summary(ex.value[1]))]

\* Faulty variant of HealthResponse: a classifier left over from an earlier
\* initialisation counts as healthy although the last one failed
HealthResponseStaleClassifier ==
    IF _persona_classifier # None /\ is_loaded(_persona_classifier[1])
    THEN [status |-> "healthy", model_loaded |-> TRUE,
          model_version |-> _persona_classifier[1]._model_version,
          last_training_date |-> _persona_classifier[1]._last_training_date,
          error_details |-> None]
    ELSE [status |-> "unhealthy", model_loaded |-> FALSE,
          model_version |-> "unknown", last_training_date |-> "unknown",
          error_details |-> Some("Model not loaded or unavailable")]

\* health_check
HealthResponse ==
    IF Ready
    THEN [status |-> "healthy", model_loaded |-> TRUE,
          model_version |-> _persona_classifier[1]._model_version,
          last_training_date |-> _persona_classifier[1]._last_training_date,
          error_details |-> None]
    ELSE [status |-> "unhealthy", model_loaded |-> FALSE,
          model_version |-> "unknown", last_training_date |-> "unknown",
          error_details |-> Some("Model not loaded or unavailable")]

\* FeatureExtractor(scaler_path): None or "" loads nothing, and a scaler
\* that is missing or cannot be loaded is ignored (the scaler_path attribute,
\* which nothing reads, is left out)
FeatureExtractor(scaler_path) ==
    [scaler |-> IF Truthy(scaler_path) /\ scaler_path[1].exists
                THEN scaler_path[1].content ELSE None]

\* What creating the directory and joblib.dump do to the disk: the scaler is
\* written; nothing is written (the directory or the file cannot be
\* created); or the write breaks off and leaves a file that cannot be loaded
DumpOutcomes == {"saved", "unchanged", "truncated"}

\* FeatureExtractor.save_scaler(scaler_path, scaler) with the outcome of the
\* write: [raised, self, file], file being what the disk holds under
\* scaler_path afterwards.  The scaler is assigned only after the dump
\* returned, an exception of the dump is raised again, and the empty path
\* cannot be written.
save_scaler(self, scaler_path, scaler, outcome) ==
    IF scaler_path.name # "" /\ outcome = "saved"
    THEN [raised |-> "",
          self |-> [self EXCEPT !.scaler = Some(scaler)],
          file |-> [scaler_path EXCEPT !.exists = TRUE,
                                       !.content = Some(scaler)]]
    ELSE [raised |-> "Exception",
          self |-> self,
          file |-> IF scaler_path.name # "" /\ outcome = "truncated"
                   THEN [scaler_path EXCEPT !.exists = TRUE,
                                            !.content = None]
                   ELSE scaler_path]

(***************************************************************************)
(* Inputs                                                                  *)
(***************************************************************************)
MaxCount == 2

SmallCounts == 0..MaxCount

ChatInputs ==
    {[ChatBehavior EXCEPT !.total_messages = tm, !.user_messages = um,
                          !.question_count = qc, !.thumbs_up_count = up,
                          !.thumbs_down_count = down, !.unique_sessions = us,
                          !.avg_message_length = len,
                          !.total_session_duration_minutes = dur] :
        tm \in SmallCounts, um \in SmallCounts, qc \in SmallCounts,
        up \in 0..1, down \in 0..1, us \in {0, 1, MAX_SESSIONS + 1},
        len \in {Zero, I(MAX_MESSAGE_LENGTH + 1)},
        dur \in {Zero, I(MAX_SESSION_DURATION \div 2)}}

MaterialInputs ==
    {[total_time_spent_seconds |-> t, total_views |-> v,
      unique_materials_viewed |-> u, bookmark_count |-> b,
      avg_scroll_depth |-> sd] :
        t \in {0, SKIMMER_MIN_TIME_PER_MATERIAL,
               SKIMMER_MIN_TIME_PER_MATERIAL + 1,
               2 * SKIMMER_MIN_TIME_PER_MATERIAL + 2, MAX_TIME_SPENT \div 2,
               MAX_TIME_SPENT + 1},
        v \in SmallCounts \cup {MAX_VIEWS + 1},
        u \in SmallCounts \cup {DEEP_DIVER_MIN_MATERIALS},
        b \in SmallCounts, sd \in {Zero, Half, One}}

ActivityInputs ==
    {[ActivityPattern EXCEPT !.active_days = ad, !.total_sessions = ts,
                             !.peak_hour = ph, !.late_night_sessions = ln,
                             !.weekend_sessions = we,
                             !.daily_activity_variance = var] :
        ad \in SmallCounts \cup {3, 7}, ts \in SmallCounts \cup {7},
        ph \in {0, 23}, ln \in SmallCounts, we \in 0..1,
        var \in {Zero, I(2), I(5), Fl(11, 2), I(11)}}

QuizInputs ==
    {[quiz_attempts |-> qa, avg_score |-> sc, completion_rate |-> cr] :
        qa \in {0, 1, MAX_QUIZ_ATTEMPTS + 1}, sc \in {Zero, I(50), I(100)},
        cr \in {Zero, Half, One}}

\* BehaviorData records that vary one sub-record and keep the defaults of
\* the others, as the unit tests build them
BehaviorInputs ==
         {[BehaviorData EXCEPT !.chat = c] : c \in ChatInputs}
    \cup {[BehaviorData EXCEPT !.material = m] : m \in MaterialInputs}
    \cup {[BehaviorData EXCEPT !.activity = a, !.analysis_period_days = days] :
             a \in ActivityInputs, days \in {1, 10}}
    \cup {[BehaviorData EXCEPT !.quiz = Some(q)] : q \in QuizInputs}

\* tests/test_guardrails.py: the sample_feature_vector fixture
sample_feature_vector ==
    [chat_message_ratio |-> Fl(5, 10), question_frequency |-> Fl(3, 10),
     avg_message_length_norm |-> Fl(4, 10), feedback_ratio |-> Fl(5, 10),
     feedback_engagement |-> Fl(2, 10), session_count_norm |-> Fl(3, 10),
     messages_per_session |-> Fl(4, 10), session_duration_norm |-> Fl(3, 10),
     time_spent_norm |-> Fl(5, 10), view_count_norm |-> Fl(4, 10),
     material_diversity |-> Fl(6, 10), avg_time_per_view_norm |-> Fl(5, 10),
     bookmark_ratio |-> Fl(3, 10), scroll_depth |-> Fl(7, 10),
     material_engagement_score |-> Fl(5, 10),
     active_days_ratio |-> Fl(6, 10), session_frequency |-> Fl(4, 10),
     consistency_score |-> Fl(7, 10), late_night_ratio |-> Fl(1, 10),
     weekend_ratio |-> Fl(3, 10), peak_hour_norm |-> Fl(5, 10),
     engagement_trend_encoded |-> Fl(5, 10),
     quiz_score_norm |-> Fl(7, 10), quiz_completion_norm |-> Fl(8, 10),
     quiz_attempt_frequency |-> Fl(3, 10)]

\* Feature vectors handed directly to apply: the fixture with the three
\* fields the flag rules read set on, next to and off their thresholds
GuardFeatureVectors ==
    {[sample_feature_vector EXCEPT !.late_night_ratio = ln,
                                   !.session_frequency = sf,
                                   !.engagement_trend_encoded = tr] :
        ln \in {Fl(1, 10), Fl(1, 2), Fl(51, 100)},
        sf \in {Fl(3, 10), Fl(31, 100)},
        tr \in {Zero, Fl(1, 4), Half}}

\* tests/test_guardrails.py: create_classification_result
create_classification_result(persona, confidence) ==
    [persona |-> persona, confidence |-> confidence,
     probabilities |-> [p \in Personas |->
                           IF p = persona THEN confidence ELSE Fl(2, 100)],
     is_low_confidence |-> FLt(confidence, Fl(1, 2))]

Confidences == {Fl(2, 5), Fl(4, 5)}

QuizScores == {None, Some(I(40)), Some(I(MASTER_MIN_QUIZ_SCORE)), Some(I(90))}

GuardAux ==
    [quiz_score : QuizScores,
     previous_persona : {None, Some(MASTER), Some(STRUGGLER)},
     total_materials_viewed : 0..(MaxCount + 1),
     avg_time_per_material :
         {Zero, I(SKIMMER_MIN_TIME_PER_MATERIAL),
          Fl(10 * SKIMMER_MIN_TIME_PER_MATERIAL + 1, 10)}]

\* A stand-in for a trained model: class index k with probability c, the
\* rest of the mass spread evenly
StubModel(k, c) ==
    [cls |-> [index |-> k],
     proba |-> [i \in 1..10 |->
                   IF i = k + 1 THEN c ELSE FDiv(FSub(One, c), I(9))]]

\* A stand-in for a model trained on string labels: its predict answers the
\* label, its probabilities are those of StubModel(k, c)
StubLabelModel(label, k, c) ==
    [StubModel(k, c) EXCEPT !.cls = [label |-> label]]

StubModels ==
         {StubModel(k, Fl(4, 5)) : k \in 0..9}
    \cup {StubModel(4, Fl(2, 5)), StubModel(4, Half), StubModel(0, Fl(2, 5))}
    \cup {StubLabelModel(MASTER, 0, Fl(4, 5)),
          StubLabelModel("expert", 4, Fl(4, 5))}

\* train.py: the metadata document written next to the model
TrainedMetadata ==
    [model_version |-> "1.0.0", training_date |-> "2025-01-01T00:00:00",
     persona_names |-> LearningPersona]

\* Metadata documents whose persona_names differ from the trained one: the
\* first five names only; an unknown name in the place of "master"; none
ShortMetadata ==
    [TrainedMetadata EXCEPT !.persona_names = SubSeq(LearningPersona, 1, 5)]

UnknownNameMetadata ==
    [TrainedMetadata EXCEPT !.persona_names = [LearningPersona EXCEPT ![5] = "expert"]]

NoNamesMetadata == [TrainedMetadata EXCEPT !.persona_names = <<>>]

ModelFiles == {MissingFile, CorruptFile} \cup {FileWith(m) : m \in StubModels}

ScalerFiles == {MissingFile, FileWith("MinMaxScaler")}

\* Arguments of save_scaler: a path to a file that does not exist yet, or
\* the empty string, and the scaler object
SavePaths == {MissingFile, EmptyPath}

Scalers == {"MinMaxScaler"}

MetadataFiles ==
    {MissingFile, FileWith(TrainedMetadata), FileWith(UnknownNameMetadata)}

\* Constructor arguments of a PersonaClassifier built on its own
ModelPaths == {None, Some(EmptyPath)} \cup {Some(f) : f \in ModelFiles}

ScalerPaths == {None, Some(EmptyPath)} \cup {Some(f) : f \in ScalerFiles}

MetadataPaths ==
    {None, Some(EmptyPath)} \cup {Some(f) : f \in MetadataFiles \cup {CorruptFile, FileWith(ShortMetadata), FileWith(NoNamesMetadata)}}

\* Models the service is started with
ServiceModels ==
    {StubModel(4, Fl(4, 5)), StubModel(4, Fl(2, 5)), StubModel(4, Half),
     StubLabelModel(MASTER, 0, Fl(4, 5)),
     StubLabelModel("expert", 4, Fl(4, 5))}

\* Arguments of initialize_components
ServiceModelPaths ==
         {None, Some(EmptyPath), Some(MissingFile), Some(CorruptFile)}
    \cup {Some(FileWith(m)) : m \in ServiceModels}

ServiceScalerPaths ==
    {None, Some(EmptyPath), Some(MissingFile), Some(FileWith("MinMaxScaler"))}

ServiceMetadataPaths == {None, Some(FileWith(UnknownNameMetadata))}

\* What the models directory next to the module holds: nothing, as in the
\* repository, or the three files train.py writes
ModelsDirs ==
    {[model |-> MissingFile, scaler |-> MissingFile, metadata |-> MissingFile],
     [model |-> FileWith(StubModel(0, Fl(4, 5))),
      scaler |-> FileWith("MinMaxScaler"),
      metadata |-> FileWith(TrainedMetadata)]}

RequestChat ==
    {ChatBehavior,
     [ChatBehavior EXCEPT !.total_messages = 100, !.user_messages = 60],
     [ChatBehavior EXCEPT !.total_messages = 1, !.user_messages = 2]}

RequestMaterial ==
    {[MaterialInteraction EXCEPT !.total_time_spent_seconds = t,
                                 !.total_views = v,
                                 !.unique_materials_viewed = u] :
        t \in {0, 2 * SKIMMER_MIN_TIME_PER_MATERIAL + 2},
        v \in SmallCounts,
        u \in SmallCounts \cup {DEEP_DIVER_MIN_MATERIALS}}

RequestActivity ==
    {ActivityPattern,
     [ActivityPattern EXCEPT !.active_days = 1, !.total_sessions = 4,
                             !.late_night_sessions = 3],
     [ActivityPattern EXCEPT !.active_days = 1, !.total_sessions = 0,
                             !.late_night_sessions = 3,
                             !.daily_activity_variance = I(11)],
     [ActivityPattern EXCEPT !.active_days = 0, !.total_sessions = 0,
                             !.late_night_sessions = 1],
     [ActivityPattern EXCEPT !.daily_activity_variance = Fl(67, 10)]}

RequestData ==
         {[BehaviorData EXCEPT !.chat = c] : c \in RequestChat}
    \cup {[BehaviorData EXCEPT !.material = m] : m \in RequestMaterial}
    \cup {[BehaviorData EXCEPT
             !.material = [MaterialInteraction EXCEPT
                             !.total_views = 140,
                             !.unique_materials_viewed = 1,
                             !.avg_scroll_depth = Half]]}

\* Behaviour data whose activity raises or could raise a flag
RequestActivityData ==
         {[BehaviorData EXCEPT !.activity = a] : a \in RequestActivity}
    \cup {[BehaviorData EXCEPT
             !.material = [MaterialInteraction EXCEPT
                             !.total_time_spent_seconds =
                                 2 * SKIMMER_MIN_TIME_PER_MATERIAL + 2,
                             !.total_views = 1,
                             !.unique_materials_viewed = 1],
             !.activity = [ActivityPattern EXCEPT
                             !.active_days = 1, !.total_sessions = 4,
                             !.late_night_sessions = 3]]}

\* PredictRequest bodies: every behaviour data with and without a quiz
\* score, and those of RequestActivityData with a previous persona as well
Requests ==
         [user_id : {"test-user"},
          behavior_data : RequestData \cup RequestActivityData,
          quiz_score : {None, Some(I(40)), Some(I(MASTER_MIN_QUIZ_SCORE))},
          previous_persona : {None}]
    \cup [user_id : {"test-user"},
          behavior_data : RequestActivityData,
          quiz_score : {None, Some(I(40))},
          previous_persona : {Some(""), Some(MASTER), Some("expert")}]

(***************************************************************************)
(* The service: module state of router.py and its three entry points       *)
(***************************************************************************)
NoCall ==
    /\ data = None
    /\ features = None
    /\ classification = None
    /\ aux = None
    /\ calls = <<>>
    /\ guardrail_result = None
    /\ request = None
    /\ response = None
    /\ raised = ""

Init ==
    /\ _feature_extractor = None
    /\ _persona_classifier = None
    /\ _logic_guardrails = None
    /\ _recommendation_engine = None
    /\ _initialized = FALSE
    /\ pc = "idle"
    /\ NoCall

\* Lines 63-68: a path argument of None names the file of its kind in the
\* models directory next to the module; any other argument, the empty
\* string included, is kept
DefaultPath(path, default_file) ==
    IF path = None THEN Some(default_file) ELSE path

\* initialize_components(model_path, scaler_path, metadata_path), called
\* with the files models_dir holds: the extractor is replaced before the
\* classifier is built, so it is replaced by a failed call too
initialize_components(model_path, scaler_path, metadata_path, models_dir) ==
    \E scaler \in {DefaultPath(scaler_path, models_dir.scaler)} :
    \E classifier \in
           {PersonaClassifier(DefaultPath(model_path, models_dir.model),
                              scaler,
                              DefaultPath(metadata_path, models_dir.metadata))} :
        /\ pc = "idle"
        /\ _feature_extractor' = Some(FeatureExtractor(scaler))
        /\ IF classifier.raised = ""
           THEN /\ _persona_classifier' = classifier.value
                /\ _logic_guardrails' = Some("LogicGuardrails")
                /\ _recommendation_engine' = Some("RecommendationEngine")
                /\ _initialized' = TRUE
                /\ response' = Some([returned |-> TRUE])
           ELSE /\ _initialized' = FALSE
                /\ response' = Some([returned |-> FALSE])
                /\ UNCHANGED <<_persona_classifier, _logic_guardrails,
                               _recommendation_engine>>
        /\ pc' = "initialize_components"
        /\ UNCHANGED <<data, features, classification, aux, calls,
                       guardrail_result, request, raised>>

InitializeComponents ==
    \E model_path \in ServiceModelPaths, scaler_path \in ServiceScalerPaths,
       metadata_path \in ServiceMetadataPaths, models_dir \in ModelsDirs :
        initialize_components(model_path, scaler_path, metadata_path,
                              models_dir)

\* Faulty variant of predict_persona: a request whose pipeline failed marks
\* the service as not initialised
predict_persona_marks_unready(req) ==
    /\ pc = "idle"
    /\ request' = Some(req)
    /\ IF ~Ready
       THEN /\ response' = Some(HTTPException(503))
            /\ UNCHANGED <<data, features, classification, aux, calls, guardrail_result, _initialized>>
       ELSE \E ex \in {extract(req.behavior_data)}, args \in {GuardrailArgs(req)} :
            \E cl \in {ClassifyStep(ex)} :
            \E gr \in {GuardrailStep(ex, cl, args)} :
            \E recs \in {RecommendStep(cl, gr)} :
            \E run \in {Pipeline(req, ex, cl, args, gr, recs)} :
                /\ data' = Some(req.behavior_data)
                /\ features' = run.features
                /\ classification' = run.classification
                /\ aux' = run.aux
                /\ calls' = run.calls
                /\ guardrail_result' = run.guardrail_result
                /\ response' = Some(run.response)
                /\ _initialized' = (run.response.status_code = 200)
    /\ pc' = "predict_persona"
    /\ UNCHANGED <<_feature_extractor, _persona_classifier, _logic_guardrails, _recommendation_engine, raised>>

\* POST /predict-persona
predict_persona(req) ==
    /\ pc = "idle"
    /\ request' = Some(req)
    /\ IF ~Ready
       THEN /\ response' = Some(HTTPException(503))
            /\ UNCHANGED <<data, features, classification, aux, calls,
                           guardrail_result>>
       ELSE \E ex \in {extract(req.behavior_data)}, args \in {GuardrailArgs(req)} :
            \E cl \in {ClassifyStep(ex)} :
            \E gr \in {GuardrailStep(ex, cl, args)} :
            \E recs \in {RecommendStep(cl, gr)} :
            \E run \in {Pipeline(req, ex, cl, args, gr, recs)} :
                /\ data' = Some(req.behavior_data)
                /\ features' = run.features
                /\ classification' = run.classification
                /\ aux' = run.aux
                /\ calls' = run.calls
                /\ guardrail_result' = run.guardrail_result
                /\ response' = Some(run.response)
    /\ pc' = "predict_persona"
    /\ UNCHANGED <<_feature_extractor, _persona_classifier, _logic_guardrails,
                   _recommendation_engine, _initialized, raised>>

PredictPersona == \E req \in Requests : predict_persona(req)

\* GET /health
health_check ==
    /\ pc = "idle"
    /\ response' = Some(HealthResponse)
    /\ pc' = "health_check"
    /\ UNCHANGED <<_feature_extractor, _persona_classifier, _logic_guardrails,
                   _recommendation_engine, _initialized, data, features,
                   classification, aux, calls, guardrail_result, request,
                   raised>>

\* The call returns: its locals and its response object are dropped
Return ==
    /\ pc \in {"initialize_components", "predict_persona", "health_check"}
    /\ pc' = "idle"
    /\ data' = None
    /\ features' = None
    /\ classification' = None
    /\ aux' = None
    /\ calls' = <<>>
    /\ guardrail_result' = None
    /\ request' = None
    /\ response' = None
    /\ UNCHANGED <<_feature_extractor, _persona_classifier, _logic_guardrails,
                   _recommendation_engine, _initialized, raised>>

Next == InitializeComponents \/ PredictPersona \/ health_check \/ Return

Spec == Init /\ [][Next]_vars

(***************************************************************************)
(* FeatureExtractor.extract called on its own                              *)
(***************************************************************************)
InitExtract ==
    /\ _feature_extractor = Some(FeatureExtractor(None))
    /\ _persona_classifier = None
    /\ _logic_guardrails = None
    /\ _recommendation_engine = None
    /\ _initialized = FALSE
    /\ pc = "extract"
    /\ data \in {Some(d) : d \in BehaviorInputs}
    /\ features = None
    /\ classification = None
    /\ aux = None
    /\ calls = <<>>
    /\ guardrail_result = None
    /\ request = None
    /\ response = None
    /\ raised = ""

Extract ==
    /\ pc = "extract"
    /\ \E r \in {extract(data[1])} :
           /\ features' = r.value
           /\ raised' = r.raised
    /\ pc' = "extracted"
    /\ UNCHANGED <<_feature_extractor, _persona_classifier, _logic_guardrails,
                   _recommendation_engine, _initialized, data, classification,
                   aux, calls, guardrail_result, request, response>>

\* extractor.save_scaler(scaler_path, scaler), before or after extract; aux
\* keeps the arguments and response the file the call left on the disk.  An
\* exception that escapes the call ends the run.
SaveScaler ==
    /\ pc \in {"extract", "extracted"}
    /\ \E scaler_path \in SavePaths, scaler \in Scalers,
          outcome \in DumpOutcomes :
         \E r \in {save_scaler(_feature_extractor[1], scaler_path, scaler,
                                outcome)} :
            /\ _feature_extractor' = Some(r.self)
            /\ aux' = Some([scaler_path |-> scaler_path, scaler |-> scaler])
            /\ response' = Some(r.file)
            /\ raised' = r.raised
            /\ pc' = IF r.raised = "" THEN pc ELSE "save_scaler"
    /\ UNCHANGED <<_persona_classifier, _logic_guardrails,
                   _recommendation_engine, _initialized, data, features,
                   classification, calls, guardrail_result, request>>

SpecExtract == InitExtract /\ [][Extract \/ SaveScaler]_vars

(***************************************************************************)
(* LogicGuardrails.apply called on its own                                 *)
(***************************************************************************)
InitApply ==
    /\ _feature_extractor = None
    /\ _persona_classifier = None
    /\ _logic_guardrails = Some("LogicGuardrails")
    /\ _recommendation_engine = None
    /\ _initialized = FALSE
    /\ pc = "apply"
    /\ data = None
    /\ features \in {Some(fv) : fv \in GuardFeatureVectors}
    /\ classification \in
           {Some(create_classification_result(p, c)) :
               p \in Personas, c \in Confidences}
    /\ aux \in {Some(a) : a \in GuardAux}
    /\ calls = <<>>
    /\ guardrail_result = None
    /\ request = None
    /\ response = None
    /\ raised = ""

Apply ==
    /\ pc = "apply"
    /\ guardrail_result' =
           Some(apply(classification[1], features[1], aux[1].quiz_score,
                      aux[1].previous_persona, aux[1].total_materials_viewed,
                      aux[1].avg_time_per_material))
    /\ calls' = OverrideChain(classification[1], aux[1].quiz_score,
                              aux[1].total_materials_viewed,
                              aux[1].avg_time_per_material).calls
    /\ pc' = "applied"
    /\ UNCHANGED <<_feature_extractor, _persona_classifier, _logic_guardrails,
                   _recommendation_engine, _initialized, data, features,
                   classification, aux, request, response, raised>>

SpecGuardrails == InitApply /\ [][Apply]_vars

(***************************************************************************)
(* PersonaClassifier constructed and called on its own                     *)
(***************************************************************************)
InitClassifier ==
    /\ _feature_extractor = None
    /\ _persona_classifier = None
    /\ _logic_guardrails = None
    /\ _recommendation_engine = None
    /\ _initialized = FALSE
    /\ pc = "new"
    /\ data = None
    /\ features \in {Some(sample_feature_vector),
                     Some([sample_feature_vector EXCEPT
                              !.chat_message_ratio = One])}
    /\ classification = None
    /\ aux = None
    /\ calls = <<>>
    /\ guardrail_result = None
    /\ request = None
    /\ response = None
    /\ raised = ""

\* classifier = PersonaClassifier(model_path, scaler_path, metadata_path)
Construct ==
    /\ pc = "new"
    /\ \E model_path \in ModelPaths, scaler_path \in ScalerPaths, metadata_path \in MetadataPaths :
         \E c \in {PersonaClassifier(model_path, scaler_path, metadata_path)} :
            /\ aux' = Some([model_path |-> model_path,
                            scaler_path |-> scaler_path,
                            metadata_path |-> metadata_path])
            /\ _persona_classifier' = c.value
            /\ raised' = c.raised
    /\ pc' = "constructed"
    /\ UNCHANGED <<_feature_extractor, _logic_guardrails,
                   _recommendation_engine, _initialized, data, features,
                   classification, calls, guardrail_result, request,
                   response>>

\* classifier.predict(features)
Predict ==
    /\ pc = "constructed"
    /\ _persona_classifier # None
    /\ \E r \in {predict(_persona_classifier[1], features[1])} :
            /\ classification' = r.value
            /\ raised' = r.raised
    /\ pc' = "predict"
    /\ UNCHANGED <<_feature_extractor, _persona_classifier, _logic_guardrails,
                   _recommendation_engine, _initialized, data, features, aux,
                   calls, guardrail_result, request, response>>

\* classifier.predict_proba(features), on a fresh classifier or after a
\* predict call on it; the returned dict is kept in response
PredictProba ==
    /\ pc \in {"constructed", "predict"}
    /\ _persona_classifier # None
    /\ \E r \in {predict_proba(_persona_classifier[1], features[1])} :
            /\ response' = r.value
            /\ raised' = r.raised
    /\ pc' = "predict_proba"
    /\ UNCHANGED <<_feature_extractor, _persona_classifier, _logic_guardrails,
                   _recommendation_engine, _initialized, data, features,
                   classification, aux, calls, guardrail_result, request>>

SpecClassifier ==
    InitClassifier /\ [][Construct \/ Predict \/ PredictProba]_vars

(***************************************************************************)
(* RecommendationEngine.get_recommendations called on its own, up to       *)
(* MaxCount times on one engine; calls lists the arguments so far          *)
(***************************************************************************)
LookupArguments == Personas \cup {"expert", ""}

InitLookup ==
    /\ _feature_extractor = None
    /\ _persona_classifier = None
    /\ _logic_guardrails = None
    /\ _recommendation_engine = Some("RecommendationEngine")
    /\ _initialized = FALSE
    /\ pc = "idle"
    /\ NoCall

\* engine.get_recommendations(persona)
GetRecommendations ==
    /\ pc = "idle"
    /\ Len(calls) < MaxCount
    /\ \E persona \in LookupArguments :
         \E r \in {get_recommendations(persona)} :
            /\ aux' = Some([persona |-> persona])
            /\ calls' = Append(calls, persona)
            /\ response' = r.value
            /\ raised' = r.raised
    /\ pc' = "get_recommendations"
    /\ UNCHANGED <<_feature_extractor, _persona_classifier, _logic_guardrails,
                   _recommendation_engine, _initialized, data, features,
                   classification, guardrail_result, request>>

\* The lookup returns (or its exception is caught) and the caller goes on
LookupReturns ==
    /\ pc = "get_recommendations"
    /\ pc' = "idle"
    /\ aux' = None
    /\ response' = None
    /\ raised' = ""
    /\ UNCHANGED <<_feature_extractor, _persona_classifier, _logic_guardrails,
                   _recommendation_engine, _initialized, data, features,
                   classification, calls, guardrail_result, request>>

SpecRecommendations ==
    InitLookup /\ [][GetRecommendations \/ LookupReturns]_vars

(***************************************************************************)
(* _generate_feature_summary called on its own                             *)
(***************************************************************************)
\* Values given to the fields the two weighted sums read
SummaryValues == {Zero, Half, One}

\* Values given to consistency_score: on, next to and off both boundaries
ConsistencyValues ==
    {Zero, Fl(32, 100), FSub(One, FDiv(Fl(67, 10), I(10))), Fl(33, 100), Half,
     Fl(66, 100), One}

\* Values of the four fields of a weighted sum whose double-precision sum
\* falls just below a boundary that the sum of the decimals reaches
SummaryBoundaryValues ==
    {<<Half, Fl(6, 10), Zero, Zero>>,
     <<Zero, Fl(3, 10), Half, Fl(7, 10)>>,
     <<One, One, Fl(3, 10), Zero>>,
     <<Zero, Half, Fl(3, 10), Fl(7, 10)>>,
     <<One, Fl(3, 10), One, Zero>>}

\* Feature vectors handed to _generate_feature_summary: the fixture with
\* the fields of one category varied at a time
SummaryFeatureVectors ==
         {[sample_feature_vector EXCEPT !.chat_message_ratio = a,
                                        !.messages_per_session = b,
                                        !.session_count_norm = c,
                                        !.feedback_engagement = d] :
             a \in SummaryValues, b \in SummaryValues,
             c \in SummaryValues, d \in SummaryValues}
    \cup {[sample_feature_vector EXCEPT !.time_spent_norm = a,
                                        !.view_count_norm = b,
                                        !.scroll_depth = c,
                                        !.material_engagement_score = d] :
             a \in SummaryValues, b \in SummaryValues,
             c \in SummaryValues, d \in SummaryValues}
    \cup {[sample_feature_vector EXCEPT !.chat_message_ratio = v[1],
                                        !.messages_per_session = v[2],
                                        !.session_count_norm = v[3],
                                        !.feedback_engagement = v[4]] :
             v \in SummaryBoundaryValues}
    \cup {[sample_feature_vector EXCEPT !.time_spent_norm = v[1],
                                        !.view_count_norm = v[2],
                                        !.scroll_depth = v[3],
                                        !.material_engagement_score = v[4]] :
             v \in SummaryBoundaryValues}
    \cup {[sample_feature_vector EXCEPT !.consistency_score = s] :
             s \in ConsistencyValues}

InitSummary ==
    /\ _feature_extractor = None
    /\ _persona_classifier = None
    /\ _logic_guardrails = None
    /\ _recommendation_engine = None
    /\ _initialized = FALSE
    /\ pc = "summary"
    /\ data = None
    /\ features \in {Some(fv) : fv \in SummaryFeatureVectors}
    /\ classification = None
    /\ aux = None
    /\ calls = <<>>
    /\ guardrail_result = None
    /\ request = None
    /\ response = None
    /\ raised = ""

GenerateFeatureSummary ==
    /\ pc = "summary"
    /\ response' = Some(_generate_feature_summary(features[1]))
    /\ pc' = "summarised"
    /\ UNCHANGED <<_feature_extractor, _persona_classifier, _logic_guardrails,
                   _recommendation_engine, _initialized, data, features,
                   classification, aux, calls, guardrail_result, request,
                   raised>>

SpecSummary == InitSummary /\ [][GenerateFeatureSummary]_vars

(***************************************************************************)
(* PersonaClassifier._feature_vector_to_array called on its own            *)
(***************************************************************************)
\* Feature vectors that tell the fields apart: 1.0 in one or two fields and
\* 0.0 in the others
ProbeFeatureVectors ==
    {[f \in FeatureNameSet |-> IF f \in {g, h} THEN One ELSE Zero] :
        g \in FeatureNameSet, h \in FeatureNameSet}

InitArray ==
    /\ _feature_extractor = None
    /\ _persona_classifier = Some(NewClassifier)
    /\ _logic_guardrails = None
    /\ _recommendation_engine = None
    /\ _initialized = FALSE
    /\ pc = "to_array"
    /\ data = None
    /\ features \in {Some(fv) : fv \in ProbeFeatureVectors}
    /\ classification = None
    /\ aux = None
    /\ calls = <<>>
    /\ guardrail_result = None
    /\ request = None
    /\ response = None
    /\ raised = ""

FeatureVectorToArray ==
    /\ pc = "to_array"
    /\ response' = Some(_feature_vector_to_array(features[1]))
    /\ pc' = "array"
    /\ UNCHANGED <<_feature_extractor, _persona_classifier, _logic_guardrails,
                   _recommendation_engine, _initialized, data, features,
                   classification, aux, calls, guardrail_result, request,
                   raised>>

SpecArray == InitArray /\ [][FeatureVectorToArray]_vars

(***************************************************************************)
(* Properties                                                              *)
(***************************************************************************)
\* C1: for every BehaviorData the input model accepts, extract produces a
\* FeatureVector and every one of its 25 fields lies in [0.0, 1.0].
C1_FeatureVectorInUnitRange ==
    pc = "extracted" =>
        /\ features # None
        /\ \A f \in FeatureNameSet : FieldInRange(features[1][f])

\* C2: whenever a sub-count exceeds its (nonzero) total, extract returns a
\* FeatureVector without raising and the ratio built from that sub-count is
\* exactly 1.0.  (A zero total is the zero-denominator default, not a ratio.)
C2_RatioOverTotalIsCappedAtOne ==
    pc = "extracted" =>
        LET d == data[1]
            Capped(sub, total, name) ==
                (sub > total /\ total > 0) =>
                    /\ raised = ""
                    /\ features # None
                    /\ features[1][name] = One
        IN  /\ Capped(d.chat.user_messages, d.chat.total_messages,
                      "chat_message_ratio")
            /\ Capped(d.chat.question_count, d.chat.user_messages,
                      "question_frequency")
            /\ Capped(d.chat.thumbs_up_count + d.chat.thumbs_down_count,
                      d.chat.total_messages, "feedback_engagement")
            /\ Capped(d.material.unique_materials_viewed,
                      d.material.total_views, "material_diversity")
            /\ Capped(d.material.bookmark_count, d.material.total_views,
                      "bookmark_ratio")
            /\ Capped(d.activity.active_days, d.analysis_period_days,
                      "active_days_ratio")
            /\ Capped(d.activity.late_night_sessions,
                      d.activity.total_sessions, "late_night_ratio")
            /\ Capped(d.activity.weekend_sessions, d.activity.total_sessions,
                      "weekend_ratio")

\* The guards of the three override rules, read off the arguments of apply
MasterGuard ==
    /\ classification[1].persona = MASTER
    /\ aux[1].quiz_score # None
    /\ FLt(aux[1].quiz_score[1], I(50))

DeepDiverGuard ==
    /\ classification[1].persona = DEEP_DIVER
    /\ aux[1].total_materials_viewed < 3

SkimmerGuard ==
    /\ classification[1].persona = SKIMMER
    /\ FGt(aux[1].avg_time_per_material, I(300))

\* C3: apply records at most one override; the rules are tried in the order
\* master_low_quiz_score, deep_diver_low_material_count,
\* skimmer_high_time_per_material, each against the classifier's original
\* persona; once a rule fires the later ones are skipped, so a SKIMMER
\* overridden to DEEP_DIVER is not overridden again to LOST.
C3_AtMostOneOverrideInOrder ==
    pc = "applied" =>
        LET r == guardrail_result[1]
        IN  /\ Len(r.override) <= 1
            /\ r.was_overridden = (r.override # None)
            /\ calls = IF MasterGuard
                       THEN <<"_check_master_override">>
                       ELSE IF DeepDiverGuard
                       THEN <<"_check_master_override",
                              "_check_deep_diver_override">>
                       ELSE <<"_check_master_override",
                              "_check_deep_diver_override",
                              "_check_skimmer_reconsideration">>
            /\ r.override # None =>
                   /\ r.override[1].original_persona
                          = classification[1].persona
                   /\ r.persona = r.override[1].final_persona
                   /\ r.override[1].rule_triggered =
                          IF MasterGuard THEN "master_low_quiz_score"
                          ELSE IF DeepDiverGuard
                          THEN "deep_diver_low_material_count"
                          ELSE "skimmer_high_time_per_material"
            /\ r.override = None => r.persona = classification[1].persona
            /\ (r.override # None) =
                   (MasterGuard \/ DeepDiverGuard \/ SkimmerGuard)
            /\ SkimmerGuard => r.persona = DEEP_DIVER

C3_Witness ==
    /\ pc = "applied"
    /\ SkimmerGuard
    /\ aux[1].total_materials_viewed < 3
    /\ guardrail_result[1].persona = DEEP_DIVER
    /\ guardrail_result[1].override[1].rule_triggered
           = "skimmer_high_time_per_material"

\* C4: a MASTER prediction is overridden to STRUGGLER by rule
\* master_low_quiz_score exactly when a quiz_score is provided and is below
\* 50.0, whatever the other arguments are; otherwise (no score, or a score
\* of 50.0 or more) it stays MASTER with no override.
C4_MasterOverride ==
    (pc = "applied" /\ classification[1].persona = MASTER) =>
        LET r == guardrail_result[1]
            low == aux[1].quiz_score # None
                   /\ FLt(aux[1].quiz_score[1], I(50))
        IN  IF low
            THEN /\ r.persona = STRUGGLER
                 /\ r.was_overridden
                 /\ r.override # None
                 /\ r.override[1].rule_triggered = "master_low_quiz_score"
                 /\ r.override[1].original_persona = MASTER
                 /\ r.override[1].final_persona = STRUGGLER
            ELSE /\ r.persona = MASTER
                 /\ ~r.was_overridden
                 /\ r.override = None

C4_Witness ==
    /\ pc = "applied"
    /\ classification[1].persona = MASTER
    /\ aux[1].quiz_score = Some(I(40))
    /\ aux[1].total_materials_viewed < 3
    /\ FGt(aux[1].avg_time_per_material, I(300))
    /\ aux[1].previous_persona = Some(MASTER)
    /\ guardrail_result[1].persona = STRUGGLER
    /\ guardrail_result[1].was_overridden

\* C5: a DEEP_DIVER prediction is overridden to LOST by rule
\* deep_diver_low_material_count exactly when total_materials_viewed < 3;
\* with 3 or more it stays DEEP_DIVER and was_overridden is false.
C5_DeepDiverOverride ==
    (pc = "applied" /\ classification[1].persona = DEEP_DIVER) =>
        LET r == guardrail_result[1]
        IN  IF aux[1].total_materials_viewed \in {0, 1, 2}
            THEN /\ r.persona = LOST
                 /\ r.was_overridden
                 /\ r.override # None
                 /\ r.override[1].rule_triggered
                        = "deep_diver_low_material_count"
            ELSE /\ aux[1].total_materials_viewed >= 3
                 /\ r.persona = DEEP_DIVER
                 /\ ~r.was_overridden

C5_Witness ==
    /\ pc = "applied"
    /\ classification[1].persona = DEEP_DIVER
    /\ aux[1].total_materials_viewed = 2
    /\ guardrail_result[1].persona = LOST
    /\ guardrail_result[1].override[1].rule_triggered
           = "deep_diver_low_material_count"

\* C6: a SKIMMER prediction is overridden to DEEP_DIVER by rule
\* skimmer_high_time_per_material exactly when avg_time_per_material > 300;
\* at 300.0 or less it stays SKIMMER and was_overridden is false.
C6_SkimmerOverride ==
    (pc = "applied" /\ classification[1].persona = SKIMMER) =>
        LET r == guardrail_result[1]
        IN  IF FGt(aux[1].avg_time_per_material, I(300))
            THEN /\ r.persona = DEEP_DIVER
                 /\ r.was_overridden
                 /\ r.override # None
                 /\ r.override[1].rule_triggered
                        = "skimmer_high_time_per_material"
            ELSE /\ r.persona = SKIMMER
                 /\ ~r.was_overridden

C6_Witness ==
    /\ pc = "applied"
    /\ classification[1].persona = SKIMMER
    /\ aux[1].avg_time_per_material = Fl(3001, 10)
    /\ guardrail_result[1].persona = DEEP_DIVER
    /\ guardrail_result[1].was_overridden

\* C7: the confidence of the GuardrailResult, and of the predict-persona
\* response built from it, equals the confidence of the raw
\* ClassificationResult, whether or not an override or a flag fired.
C7_ConfidenceCarriedThrough ==
    (pc = "predict_persona" /\ guardrail_result # None) =>
        /\ guardrail_result[1].confidence = classification[1].confidence
        /\ response[1].status_code = 200 =>
               response[1].body[1].confidence = classification[1].confidence

C7_Witness ==
    /\ pc = "predict_persona"
    /\ guardrail_result # None
    /\ response[1].status_code = 200
    /\ guardrail_result[1].was_overridden
    /\ guardrail_result[1].flags.potential_anxious
    /\ response[1].body[1].confidence = Fl(2, 5)

\* C8: potential_anxious is true if and only if late_night_ratio > 0.5 and
\* session_frequency > 0.3, both strict.
C8_AnxiousFlag ==
    pc = "applied" =>
        guardrail_result[1].flags.potential_anxious =
            (/\ FGt(features[1].late_night_ratio, Fl(1, 2))
             /\ FGt(features[1].session_frequency, Fl(3, 10)))

C8_Witness ==
    /\ pc = "applied"
    /\ features[1].late_night_ratio = Fl(51, 100)
    /\ features[1].session_frequency = Fl(31, 100)
    /\ guardrail_result[1].flags.potential_anxious

\* C9: potential_burnout is true if and only if engagement_trend_encoded <
\* 0.25 (strict) and previous_persona is MASTER; with previous_persona
\* absent or another persona the flag is false whatever the trend is.
C9_BurnoutFlag ==
    pc = "applied" =>
        guardrail_result[1].flags.potential_burnout =
            (/\ FLt(features[1].engagement_trend_encoded, Fl(1, 4))
             /\ aux[1].previous_persona = Some(MASTER))

C9_Witness ==
    /\ pc = "applied"
    /\ features[1].engagement_trend_encoded = Zero
    /\ aux[1].previous_persona = Some(MASTER)
    /\ guardrail_result[1].flags.potential_burnout

\* The flags of a call that differs from the recorded one in everything but
\* the feature vector and previous_persona: a persona no override rule
\* matches, no quiz score, and neutral material counts.
BaselinePrediction == create_classification_result(LOST, Fl(4, 5))

BaselineFlags ==
    apply(BaselinePrediction, features[1], None, aux[1].previous_persona, 3,
          Zero).flags

\* C10: the two flags are evaluated on every call and depend only on the
\* feature vector and previous_persona: they equal the flags of the
\* baseline call whatever the predicted persona, quiz_score,
\* total_materials_viewed and avg_time_per_material are and whether or not
\* an override fired.
C10_FlagsIndependentOfOverride ==
    pc = "applied" =>
        \E baseline \in {BaselineFlags} :
            /\ guardrail_result[1].flags.potential_anxious
                   = baseline.potential_anxious
            /\ guardrail_result[1].flags.potential_burnout
                   = baseline.potential_burnout

C10_Witness ==
    /\ pc = "applied"
    /\ guardrail_result[1].was_overridden
    /\ guardrail_result[1].flags.potential_anxious
    /\ guardrail_result[1].flags.potential_burnout
    /\ guardrail_result[1].flags.needs_attention

\* C10: the other three flag combinations
C10_NeitherFlag ==
    /\ pc = "applied"
    /\ ~guardrail_result[1].flags.potential_anxious
    /\ ~guardrail_result[1].flags.potential_burnout

C10_AnxiousOnly ==
    /\ pc = "applied"
    /\ guardrail_result[1].flags.potential_anxious
    /\ ~guardrail_result[1].flags.potential_burnout

C10_BurnoutOnly ==
    /\ pc = "applied"
    /\ ~guardrail_result[1].flags.potential_anxious
    /\ guardrail_result[1].flags.potential_burnout

\* C11: in every GuardrailResult needs_attention is true if and only if
\* potential_anxious, potential_burnout or was_overridden is true, and
\* flag_reasons holds exactly one reason per flag that fired, the anxious
\* reason first; an override alone adds no reason.
C11_NeedsAttention ==
    pc = "applied" =>
        LET r == guardrail_result[1]
            anxious == _check_anxious_flags(features[1])
            burnout == _check_burnout_flags(features[1],
                                            aux[1].previous_persona)
        IN  /\ r.flags.needs_attention =
                   (\/ r.flags.potential_anxious
                    \/ r.flags.potential_burnout
                    \/ r.was_overridden)
            /\ Len(r.flags.flag_reasons) =
                   (IF r.flags.potential_anxious THEN 1 ELSE 0)
                   + (IF r.flags.potential_burnout THEN 1 ELSE 0)
            /\ r.flags.flag_reasons = anxious \o burnout
            /\ Len(anxious) <= 1
            /\ Len(burnout) <= 1

C11_Witness ==
    /\ pc = "applied"
    /\ guardrail_result[1].was_overridden
    /\ ~guardrail_result[1].flags.potential_anxious
    /\ ~guardrail_result[1].flags.potential_burnout
    /\ guardrail_result[1].flags.needs_attention
    /\ guardrail_result[1].flags.flag_reasons = <<>>

\* C11: both flags fired without an override: two reasons
C11_BothReasons ==
    /\ pc = "applied"
    /\ ~guardrail_result[1].was_overridden
    /\ Len(guardrail_result[1].flags.flag_reasons) = 2
    /\ guardrail_result[1].flags.needs_attention

\* C11: nothing fired: needs_attention is false
C11_Quiet ==
    /\ pc = "applied"
    /\ ~guardrail_result[1].was_overridden
    /\ guardrail_result[1].flags.flag_reasons = <<>>
    /\ ~guardrail_result[1].flags.needs_attention

\* C12: in a successful predict-persona response the persona and the
\* recommendation list are those of the post-guardrail persona: with an
\* override the persona is override.final_persona, the recommendations are
\* the static bundle of that persona and override_info records the
\* classifier's original persona; without one they are the classifier's.
\* A record with total_messages = 100 and user_messages = 60 gives
\* chat_message_ratio 0.6, and a MASTER classification with quiz_score 40
\* answers STRUGGLER with STRUGGLER's recommendations.
C12_ResponseFollowsFinalPersona ==
    (pc = "predict_persona" /\ response[1].status_code = 200) =>
        LET body == response[1].body[1]
            cls == classification[1]
            gr == guardrail_result[1]
        IN  /\ body.persona = gr.persona
            /\ body.recommendations
                   = _persona_recommendations[body.persona].recommendations
            /\ body.override_info = gr.override
            /\ IF gr.was_overridden
               THEN /\ body.override_info # None
                    /\ body.persona = body.override_info[1].final_persona
                    /\ body.override_info[1].original_persona = cls.persona
                    /\ body.persona # cls.persona
               ELSE /\ body.override_info = None
                    /\ body.persona = cls.persona
            /\ (/\ request[1].behavior_data.chat.total_messages = 100
                /\ request[1].behavior_data.chat.user_messages = 60)
                   => features[1].chat_message_ratio = Fl(6, 10)
            /\ (cls.persona = MASTER /\ request[1].quiz_score = Some(I(40)))
                   => /\ body.persona = STRUGGLER
                      /\ gr.was_overridden
                      /\ body.recommendations[1].id
                             = "struggler_simplified_materials"

C12_Witness ==
    /\ pc = "predict_persona"
    /\ response[1].status_code = 200
    /\ request[1].behavior_data.chat.total_messages = 100
    /\ request[1].behavior_data.chat.user_messages = 60
    /\ request[1].quiz_score = Some(I(40))
    /\ features[1].chat_message_ratio = Fl(6, 10)
    /\ classification[1].persona = MASTER
    /\ guardrail_result[1].was_overridden
    /\ response[1].body[1].persona = STRUGGLER
    /\ response[1].body[1].recommendations
           = _persona_recommendations[STRUGGLER].recommendations

\* C13: when the denominator of a division-based feature is zero, extract
\* does not fail and the feature takes its policy default: 0.5 for
\* chat_message_ratio (total_messages = 0) and feedback_ratio
\* (thumbs_up + thumbs_down = 0); 0.0 for question_frequency,
\* feedback_engagement, messages_per_session, material_diversity,
\* avg_time_per_view_norm, bookmark_ratio, session_frequency,
\* late_night_ratio and weekend_ratio.
C13_ZeroDenominatorDefaults ==
    pc = "extracted" =>
        LET d == data[1]
            Default(denominator, name, default) ==
                denominator = 0 =>
                    /\ raised = ""
                    /\ features # None
                    /\ features[1][name] = default
        IN  /\ Default(d.chat.total_messages, "chat_message_ratio", Half)
            /\ Default(d.chat.thumbs_up_count + d.chat.thumbs_down_count,
                       "feedback_ratio", Half)
            /\ Default(d.chat.user_messages, "question_frequency", Zero)
            /\ Default(d.chat.total_messages, "feedback_engagement", Zero)
            /\ Default(d.chat.unique_sessions, "messages_per_session", Zero)
            /\ Default(d.material.total_views, "material_diversity", Zero)
            /\ Default(d.material.total_views, "avg_time_per_view_norm",
                       Zero)
            /\ Default(d.material.total_views, "bookmark_ratio", Zero)
            /\ Default(d.activity.active_days, "session_frequency", Zero)
            /\ Default(d.activity.total_sessions, "late_night_ratio", Zero)
            /\ Default(d.activity.total_sessions, "weekend_ratio", Zero)

\* C13: the defaults are in place in every vector extract does return, and
\* extract returns one unless user_messages exceeds a nonzero total_messages
C13_DefaultsInReturnedVectors ==
    pc = "extracted" =>
        LET d == data[1]
            Default(denominator, name, default) ==
                (denominator = 0 /\ features # None) =>
                    features[1][name] = default
        IN  /\ Default(d.chat.total_messages, "chat_message_ratio", Half)
            /\ Default(d.chat.thumbs_up_count + d.chat.thumbs_down_count,
                       "feedback_ratio", Half)
            /\ Default(d.chat.user_messages, "question_frequency", Zero)
            /\ Default(d.chat.total_messages, "feedback_engagement", Zero)
            /\ Default(d.chat.unique_sessions, "messages_per_session", Zero)
            /\ Default(d.material.total_views, "material_diversity", Zero)
            /\ Default(d.material.total_views, "avg_time_per_view_norm",
                       Zero)
            /\ Default(d.material.total_views, "bookmark_ratio", Zero)
            /\ Default(d.activity.active_days, "session_frequency", Zero)
            /\ Default(d.activity.total_sessions, "late_night_ratio", Zero)
            /\ Default(d.activity.total_sessions, "weekend_ratio", Zero)
            /\ features = None =>
                   /\ d.chat.total_messages > 0
                   /\ d.chat.user_messages > d.chat.total_messages

\* C14: for every input the material_engagement_score of the extracted
\* vector equals 0.4 * time_spent_norm + 0.4 * scroll_depth
\* + 0.2 * bookmark_ratio over the capped values of the same vector; so it
\* is 1.0 when the three are 1.0, 0.0 when they are 0.0 and 0.5 when they
\* are 0.5.
C14_MaterialEngagementScore ==
    (pc = "extracted" /\ features # None) =>
        LET fv == features[1]
            AllAre(x) == /\ fv.time_spent_norm = x
                         /\ fv.scroll_depth = x
                         /\ fv.bookmark_ratio = x
        IN  /\ fv.material_engagement_score
                   = FAdd(FAdd(FMul(Fl(4, 10), fv.time_spent_norm),
                               FMul(Fl(4, 10), fv.scroll_depth)),
                          FMul(Fl(2, 10), fv.bookmark_ratio))
            /\ AllAre(One) => fv.material_engagement_score = One
            /\ AllAre(Zero) => fv.material_engagement_score = Zero
            /\ AllAre(Half) => fv.material_engagement_score = Half

\* C14: all three terms capped at 1.0 (bookmarks above views, time above
\* MAX_TIME_SPENT)
C14_Witness ==
    /\ pc = "extracted"
    /\ features # None
    /\ data[1].material.bookmark_count > data[1].material.total_views
    /\ data[1].material.total_time_spent_seconds > MAX_TIME_SPENT
    /\ features[1].time_spent_norm = One
    /\ features[1].scroll_depth = One
    /\ features[1].bookmark_ratio = One
    /\ features[1].material_engagement_score = One

\* C14: all three terms 0.5
C14_AllHalf ==
    /\ pc = "extracted"
    /\ features # None
    /\ features[1].time_spent_norm = Half
    /\ features[1].scroll_depth = Half
    /\ features[1].bookmark_ratio = Half
    /\ features[1].material_engagement_score = Half

\* C14: all three terms 0.0
C14_AllZero ==
    /\ pc = "extracted"
    /\ features # None
    /\ features[1].time_spent_norm = Zero
    /\ features[1].scroll_depth = Zero
    /\ features[1].bookmark_ratio = Zero
    /\ features[1].material_engagement_score = Zero

\* C15: with BehaviorData.quiz absent, or present with quiz_attempts = 0,
\* extract yields quiz_score_norm = 0.5, quiz_completion_norm = 0.5 and
\* quiz_attempt_frequency = 0.0 whatever avg_score and completion_rate
\* hold; with quiz_attempts > 0 it yields avg_score / 100, completion_rate
\* and min(1, quiz_attempts / 50).
C15_QuizFeatures ==
    (pc = "extracted" /\ features # None) =>
        LET fv == features[1]
            quiz == data[1].quiz
        IN  IF quiz = None \/ quiz[1].quiz_attempts = 0
            THEN /\ fv.quiz_score_norm = Half
                 /\ fv.quiz_completion_norm = Half
                 /\ fv.quiz_attempt_frequency = Zero
            ELSE /\ fv.quiz_score_norm = FDiv(quiz[1].avg_score, I(100))
                 /\ fv.quiz_completion_norm = quiz[1].completion_rate
                 /\ fv.quiz_attempt_frequency =
                        (IF quiz[1].quiz_attempts >= 50 THEN One
                         ELSE Fl(quiz[1].quiz_attempts, 50))

\* C15: a quiz record with no attempts but a populated score
C15_Witness ==
    /\ pc = "extracted"
    /\ data[1].quiz # None
    /\ data[1].quiz[1].quiz_attempts = 0
    /\ data[1].quiz[1].avg_score = I(100)
    /\ data[1].quiz[1].completion_rate = Zero
    /\ features[1].quiz_score_norm = Half
    /\ features[1].quiz_completion_norm = Half
    /\ features[1].quiz_attempt_frequency = Zero

\* C15: real attempts are scored
C15_Attempted ==
    /\ pc = "extracted"
    /\ data[1].quiz # None
    /\ data[1].quiz[1].quiz_attempts = 1
    /\ data[1].quiz[1].avg_score = Zero
    /\ features[1].quiz_score_norm = Zero
    /\ features[1].quiz_attempt_frequency = Fl(1, 50)

\* C15: no quiz record at all
C15_Absent ==
    /\ pc = "extracted"
    /\ data[1].quiz = None
    /\ features # None
    /\ features[1].quiz_score_norm = Half

\* C16: predict returns confidence equal to the maximum of the model's class
\* probabilities and is_low_confidence = (confidence < 0.5), so exactly 0.5
\* is not low; the predict-persona response carries the classification's
\* is_low_confidence also when a guardrail overrides the persona, and a
\* low-confidence prediction is answered 200, not an error.
C16_ConfidenceAndLowFlag ==
    (pc = "predict_persona" /\ classification # None) =>
        LET cls == classification[1]
            proba == _persona_classifier[1].model[1].proba
        IN  /\ \A i \in DOMAIN proba : FLe(proba[i], cls.confidence)
            /\ \E i \in DOMAIN proba : proba[i] = cls.confidence
            /\ cls.is_low_confidence = FLt(cls.confidence, Fl(1, 2))
            /\ cls.confidence = Fl(1, 2) => ~cls.is_low_confidence
            /\ response[1].status_code = 200
            /\ response[1].body[1].is_low_confidence = cls.is_low_confidence

\* C16: a confidence of exactly 0.5 on an overridden prediction
C16_Witness ==
    /\ pc = "predict_persona"
    /\ classification # None
    /\ classification[1].confidence = Fl(1, 2)
    /\ ~classification[1].is_low_confidence
    /\ guardrail_result[1].was_overridden
    /\ response[1].status_code = 200
    /\ ~response[1].body[1].is_low_confidence

\* C16: a low-confidence, overridden prediction is answered 200
C16_LowConfidenceOverridden ==
    /\ pc = "predict_persona"
    /\ classification # None
    /\ classification[1].confidence = Fl(2, 5)
    /\ classification[1].is_low_confidence
    /\ guardrail_result[1].was_overridden
    /\ response[1].status_code = 200
    /\ response[1].body[1].is_low_confidence

\* C17: a call of predict or predict_proba on a classifier with no model
\* loaded raises the "Model not loaded" RuntimeError, returns neither a
\* persona nor a probability map, and leaves the classifier as it was.
C17_PredictBeforeLoad ==
    [][(/\ pc \in {"constructed", "predict"}
        /\ pc' \in {"predict", "predict_proba"}
        /\ pc' # pc
        /\ ~is_loaded(_persona_classifier[1]))
       => /\ raised' = "RuntimeError"
          /\ classification' = None
          /\ response' = None
          /\ _persona_classifier' = _persona_classifier]_vars

\* C17: predict was called on a classifier built without a model path but
\* with scaler and metadata loaded
C17_Witness ==
    /\ pc = "predict"
    /\ aux[1].model_path = None
    /\ ~is_loaded(_persona_classifier[1])
    /\ _persona_classifier[1].scaler # None
    /\ _persona_classifier[1]._persona_names = LearningPersona
    /\ raised = "RuntimeError"
    /\ classification = None

\* C17: the same for predict_proba
C17_ProbaBeforeLoad ==
    /\ pc = "predict_proba"
    /\ ~is_loaded(_persona_classifier[1])
    /\ raised = "RuntimeError"
    /\ response = None

\* C17: with a model loaded both calls return
C17_Loaded ==
    /\ pc \in {"predict", "predict_proba"}
    /\ is_loaded(_persona_classifier[1])
    /\ raised = ""
    /\ classification # None \/ response # None

\* C18: predict-persona answers 503, before the behaviour data is read,
\* whenever the components are not initialised or the classifier has no
\* loaded model; once past that test every failure of the pipeline
\* (extraction, classification, guardrails, recommendation lookup) is
\* answered 500, never 503; and the health endpoint reports "unhealthy"
\* with model_loaded = false in exactly the states where predict-persona
\* answers 503.
C18_UnavailableVersusFailed ==
    LET unavailable ==
            \/ ~_initialized
            \/ _persona_classifier = None
            \/ _persona_classifier[1].model = None
    IN  /\ pc = "predict_persona" =>
               IF unavailable
               THEN /\ response[1].status_code = 503
                    /\ data = None
                    /\ features = None
                    /\ classification = None
                    /\ guardrail_result = None
               ELSE /\ data = Some(request[1].behavior_data)
                    /\ response[1].status_code \in {200, 500}
                    /\ (response[1].status_code = 500) =
                           (\/ features = None
                            \/ classification = None
                            \/ guardrail_result = None)
        /\ pc = "health_check" =>
               /\ (response[1].status = "unhealthy") = unavailable
               /\ (response[1].status = "healthy") = ~unavailable
               /\ response[1].model_loaded = ~unavailable

\* C18: a loaded classifier is left over from an earlier initialisation but
\* the last initialisation failed: predict-persona answers 503
C18_Witness ==
    /\ pc = "predict_persona"
    /\ ~_initialized
    /\ _persona_classifier # None
    /\ _persona_classifier[1].model # None
    /\ request[1].behavior_data.chat.user_messages = 2
    /\ response[1].status_code = 503
    /\ data = None

\* C18: health in the same situation
C18_UnhealthyAfterFailedReinitialisation ==
    /\ pc = "health_check"
    /\ ~_initialized
    /\ _persona_classifier # None
    /\ response[1].status = "unhealthy"
    /\ ~response[1].model_loaded

\* C18: extraction failed inside the pipeline: 500
C18_ExtractionFailed ==
    /\ pc = "predict_persona"
    /\ _initialized
    /\ data # None
    /\ features = None
    /\ response[1].status_code = 500

\* C18: classification failed inside the pipeline: 500
C18_ClassificationFailed ==
    /\ pc = "predict_persona"
    /\ _initialized
    /\ features # None
    /\ classification = None
    /\ response[1].status_code = 500

\* C19: constructing a PersonaClassifier with a model path, or with a scaler
\* path, that does not exist fails with FileNotFoundError and yields no
\* classifier; a metadata path that does not exist does not fail the
\* construction and leaves model_version "0.0.0" and last_training_date
\* "unknown".
C19_MissingFiles ==
    pc = "constructed" =>
        LET Given(path) == path # None /\ path[1].name # ""
            Missing(path) == Given(path) /\ ~path[1].exists
            Loads(path) == Given(path) /\ path[1].exists
                              /\ path[1].content # None
            model_missing == Missing(aux[1].model_path)
            scaler_missing ==
                /\ ~Given(aux[1].model_path) \/ Loads(aux[1].model_path)
                /\ Missing(aux[1].scaler_path)
            metadata_missing ==
                /\ ~Given(aux[1].model_path) \/ Loads(aux[1].model_path)
                /\ ~Given(aux[1].scaler_path) \/ Loads(aux[1].scaler_path)
                /\ Missing(aux[1].metadata_path)
        IN  /\ (model_missing \/ scaler_missing) =>
                   /\ raised = "FileNotFoundError"
                   /\ _persona_classifier = None
            /\ metadata_missing =>
                   /\ raised = ""
                   /\ _persona_classifier # None
                   /\ _persona_classifier[1]._model_version = "0.0.0"
                   /\ _persona_classifier[1]._last_training_date = "unknown"
                   /\ _persona_classifier[1]._persona_names = <<>>

\* C19: the model loads but the scaler path does not exist
C19_Witness ==
    /\ pc = "constructed"
    /\ aux[1].model_path # None
    /\ aux[1].model_path[1].content # None
    /\ aux[1].scaler_path = Some(MissingFile)
    /\ aux[1].metadata_path = Some(FileWith(TrainedMetadata))
    /\ raised = "FileNotFoundError"
    /\ _persona_classifier = None

\* C19: the model path does not exist
C19_ModelMissing ==
    /\ pc = "constructed"
    /\ aux[1].model_path = Some(MissingFile)
    /\ raised = "FileNotFoundError"
    /\ _persona_classifier = None

\* C19: only the metadata path does not exist
C19_MetadataMissing ==
    /\ pc = "constructed"
    /\ aux[1].metadata_path = Some(MissingFile)
    /\ _persona_classifier # None
    /\ _persona_classifier[1].model # None
    /\ _persona_classifier[1]._model_version = "0.0.0"

\* C20: predict resolves the model's class index to a persona through the
\* persona_names mapping loaded from metadata; when a mapping is loaded and
\* does not cover the predicted index, or maps it to a name that is not one
\* of the ten persona values, predict fails with an error and returns no
\* persona chosen some other way.
C20_PersonaNamesMapping ==
    (/\ pc = "predict"
     /\ is_loaded(_persona_classifier[1])
     /\ "index" \in DOMAIN _persona_classifier[1].model[1].cls
     /\ _persona_classifier[1]._persona_names # <<>>) =>
        LET names == _persona_classifier[1]._persona_names
            idx == _persona_classifier[1].model[1].cls.index
        IN  IF idx + 1 \in DOMAIN names /\ names[idx + 1] \in Personas
            THEN /\ raised = ""
                 /\ classification # None
                 /\ classification[1].persona = names[idx + 1]
            ELSE /\ raised # ""
                 /\ classification = None

\* C20: what predict does with a loaded mapping: a covered index gives the
\* mapped name or, if that is no persona value, ValueError; an index the
\* mapping does not cover gives the LearningPersona member at that position
C20_CoveredOrEnumOrder ==
    (/\ pc = "predict"
     /\ is_loaded(_persona_classifier[1])
     /\ "index" \in DOMAIN _persona_classifier[1].model[1].cls
     /\ _persona_classifier[1]._persona_names # <<>>) =>
        LET names == _persona_classifier[1]._persona_names
            idx == _persona_classifier[1].model[1].cls.index
        IN  IF idx + 1 \in DOMAIN names
            THEN IF names[idx + 1] \in Personas
                 THEN /\ raised = ""
                      /\ classification[1].persona = names[idx + 1]
                 ELSE /\ raised = "ValueError"
                      /\ classification = None
            ELSE /\ raised = ""
                 /\ classification[1].persona = LearningPersona[idx + 1]

\* C20: a five-name mapping and a model that predicts class 7
C20_UncoveredIndexAnswered ==
    /\ pc = "predict"
    /\ Len(_persona_classifier[1]._persona_names) = 5
    /\ _persona_classifier[1].model[1].cls = [index |-> 7]
    /\ raised = ""
    /\ classification # None
    /\ classification[1].persona = SOCIAL_LEARNER
    /\ SOCIAL_LEARNER \notin DOMAIN classification[1].probabilities

\* C21: for the same loaded classifier and feature vector, predict_proba
\* returns a probability map identical (same keys, same values) to the
\* probabilities field of predict, and both have one entry per persona,
\* ten in all.
C21_ProbaMatchesPredict ==
    (pc = "predict_proba" /\ classification # None) =>
        /\ response # None
        /\ response[1] = classification[1].probabilities
        /\ DOMAIN response[1] = Personas
        /\ Cardinality(DOMAIN response[1]) = 10
        /\ DOMAIN classification[1].probabilities = Personas

\* C21: the two maps are identical whatever mapping is loaded, and have an
\* entry per persona when the mapping is absent or is the trained one
C21_SameMap ==
    (pc = "predict_proba" /\ classification # None) =>
        /\ response # None
        /\ response[1] = classification[1].probabilities
        /\ _persona_classifier[1]._persona_names \in {<<>>, LearningPersona}
               => DOMAIN response[1] = Personas

\* C21: predict then predict_proba on a classifier with a five-name mapping
C21_FiveEntries ==
    /\ pc = "predict_proba"
    /\ classification # None
    /\ Len(_persona_classifier[1]._persona_names) = 5
    /\ _persona_classifier[1].model[1].cls = [index |-> 2]
    /\ classification[1].persona = ANXIOUS
    /\ Cardinality(DOMAIN response[1]) = 5
    /\ Cardinality(DOMAIN classification[1].probabilities) = 5

\* C22: for each of the ten personas get_recommendations returns a bundle
\* whose persona is the requested one and that holds at least 4
\* recommendations with pairwise distinct ids, priorities exactly 1, 2,
\* ..., n in list order and an action_type among content, ui,
\* notification, feature; a persona outside the table makes the lookup
\* fail with ValueError.
C22_RecommendationBundles ==
    pc = "get_recommendations" =>
        LET persona == aux[1].persona
        IN  IF persona \in Personas
            THEN /\ raised = ""
                 /\ response # None
                 /\ response[1].persona = persona
                 /\ LET recs == response[1].recommendations
                    IN  /\ Len(recs) >= 4
                        /\ \A i, j \in DOMAIN recs :
                               i # j => recs[i].id # recs[j].id
                        /\ \A i \in DOMAIN recs :
                               /\ recs[i].priority = i
                               /\ recs[i].action_type \in
                                      {"content", "ui", "notification",
                                       "feature"}
            ELSE /\ raised = "ValueError"
                 /\ response = None

\* C22: an unknown persona is looked up after a known one on the same engine
C22_Witness ==
    /\ pc = "get_recommendations"
    /\ calls = <<LOST, "expert">>
    /\ raised = "ValueError"
    /\ response = None

\* C22: a known persona looked up after a failed lookup
C22_SocialLearnerBundle ==
    /\ pc = "get_recommendations"
    /\ calls = <<"expert", SOCIAL_LEARNER>>
    /\ response[1].persona = SOCIAL_LEARNER
    /\ Len(response[1].recommendations) = 4
    /\ response[1].recommendations[4].id = "social_learner_peer_review"

\* The response predict_persona gives to req in the current state of the
\* module globals
ResponseTo(req) ==
    IF ~Ready THEN HTTPException(503)
    ELSE LET ex == extract(req.behavior_data)
             cl == ClassifyStep(ex)
             gr == GuardrailStep(ex, cl, GuardrailArgs(req))
             recs == RecommendStep(cl, gr)
         IN  IF recs.raised # "" THEN HTTPException(500)
             ELSE PredictResponse(req, cl.value[1], gr[1], recs.value[1],
                                  _generate_feature_summary(ex.value[1]))

\* C23: a request whose previous_persona string is empty or is not one of
\* the ten persona values is handled as if previous_persona were absent:
\* apply is handed no previous persona, no burnout flag is raised, and the
\* response equals the response to the same request without
\* previous_persona.
C23_InvalidPreviousPersona ==
    (/\ pc = "predict_persona"
     /\ request[1].previous_persona # None
     /\ request[1].previous_persona[1] \notin Personas) =>
        /\ response[1]
               = ResponseTo([request[1] EXCEPT !.previous_persona = None])
        /\ aux # None => aux[1].previous_persona = None
        /\ guardrail_result # None =>
               /\ ~guardrail_result[1].flags.potential_burnout
               /\ response[1].status_code = 200

\* C23: an unknown previous_persona on a request with a declining trend,
\* which a previous MASTER would have flagged
C23_Witness ==
    /\ pc = "predict_persona"
    /\ request[1].previous_persona = Some("expert")
    /\ features # None
    /\ features[1].engagement_trend_encoded = Zero
    /\ response[1].status_code = 200
    /\ ~guardrail_result[1].flags.potential_burnout

\* C23: the same request with previous_persona "master" is flagged
C23_ValidPreviousPersonaFlagged ==
    /\ pc = "predict_persona"
    /\ request[1].previous_persona = Some(MASTER)
    /\ features # None
    /\ features[1].engagement_trend_encoded = Zero
    /\ guardrail_result[1].flags.potential_burnout

\* C23: the empty string
C23_EmptyPreviousPersona ==
    /\ pc = "predict_persona"
    /\ request[1].previous_persona = Some("")
    /\ response[1].status_code = 200
    /\ aux[1].previous_persona = None

\* C24: handling a predict-persona request, after any sequence of earlier
\* requests and initialisations, never changes the loaded classifier (model,
\* scaler, metadata), the other component objects or the readiness flag,
\* and its response is the one determined by the request and the loaded
\* artefacts alone.
C24_RequestsShareNothing ==
    [][(pc = "idle" /\ pc' = "predict_persona") =>
          /\ _feature_extractor' = _feature_extractor
          /\ _persona_classifier' = _persona_classifier
          /\ _logic_guardrails' = _logic_guardrails
          /\ _recommendation_engine' = _recommendation_engine
          /\ _initialized' = _initialized
          /\ response' = Some(ResponseTo(request'[1]))]_vars

\* C24: a request whose pipeline failed was answered 500 and the service is
\* still initialised with its loaded model
C24_Witness ==
    /\ pc = "predict_persona"
    /\ response[1].status_code = 500
    /\ _initialized
    /\ _persona_classifier # None
    /\ _persona_classifier[1].model # None
    /\ _persona_classifier[1].scaler # None

\* The two scores of the engagement heuristic, counted from the raw input
DecliningIndicators ==
    LET a == data[1].activity
        days == data[1].analysis_period_days
    IN    (IF FGt(a.daily_activity_variance, I(5)) THEN 1 ELSE 0)
        + (IF 10 * a.active_days < 3 * days THEN 1 ELSE 0)
        + (IF a.active_days > 0 /\ 2 * a.total_sessions < a.active_days
           THEN 1 ELSE 0)
        + (IF 10 * a.late_night_sessions > 4 * a.total_sessions
           THEN 1 ELSE 0)

IncreasingIndicators ==
    LET a == data[1].activity
        days == data[1].analysis_period_days
    IN    (IF FLt(a.daily_activity_variance, I(2)) THEN 1 ELSE 0)
        + (IF 10 * a.active_days > 6 * days THEN 1 ELSE 0)
        + (IF a.active_days > 0 /\ a.total_sessions > 2 * a.active_days
           THEN 1 ELSE 0)

\* C25: engagement_trend_encoded is one of 0.0, 0.5, 1.0: 0.5 whenever
\* total_sessions = 0; otherwise 0.0 when at least two declining indicators
\* hold (variance > 5; active_days / analysis_period_days < 0.3;
\* total_sessions / active_days < 0.5 with active_days > 0;
\* late_night_sessions / total_sessions > 0.4), else 1.0 when at least two
\* increasing indicators hold (variance < 2; active-days ratio > 0.6;
\* sessions per active day > 2), else 0.5; when both scores reach 2 the
\* result is 0.0.
C25_EngagementTrend ==
    (pc = "extracted" /\ features # None) =>
        /\ features[1].engagement_trend_encoded \in {Zero, Half, One}
        /\ features[1].engagement_trend_encoded =
               IF data[1].activity.total_sessions = 0 THEN Half
               ELSE IF DecliningIndicators >= 2 THEN Zero
               ELSE IF IncreasingIndicators >= 2 THEN One
               ELSE Half

\* C25: both scores reach 2 and the trend is declining
C25_Witness ==
    /\ pc = "extracted"
    /\ features # None
    /\ data[1].activity.total_sessions > 0
    /\ DecliningIndicators >= 2
    /\ IncreasingIndicators >= 2
    /\ features[1].engagement_trend_encoded = Zero

\* C25: increasing
C25_Increasing ==
    /\ pc = "extracted"
    /\ features # None
    /\ data[1].activity.total_sessions > 0
    /\ DecliningIndicators = 1
    /\ IncreasingIndicators = 2
    /\ features[1].engagement_trend_encoded = One

\* C25: no sessions, with indicators that would otherwise score
C25_NoSessionsStable ==
    /\ pc = "extracted"
    /\ features # None
    /\ data[1].activity.total_sessions = 0
    /\ DecliningIndicators >= 2
    /\ features[1].engagement_trend_encoded = Half

\* C25: sessions, but neither score reaches 2
C25_StableWithSessions ==
    /\ pc = "extracted"
    /\ features # None
    /\ data[1].activity.total_sessions > 0
    /\ DecliningIndicators < 2
    /\ IncreasingIndicators < 2
    /\ features[1].engagement_trend_encoded = Half

\* C26: the persona returned by apply never violates the guard of an
\* override rule: it is never MASTER when a quiz_score below 50 was
\* provided, never DEEP_DIVER when total_materials_viewed < 3, and never
\* SKIMMER when avg_time_per_material > 300.
C26_FinalPersonaRespectsGuards ==
    pc = "applied" =>
        LET r == guardrail_result[1]
        IN  /\ ~(/\ r.persona = MASTER
                 /\ aux[1].quiz_score # None
                 /\ FLt(aux[1].quiz_score[1], I(50)))
            /\ ~(r.persona = DEEP_DIVER /\ aux[1].total_materials_viewed < 3)
            /\ ~(/\ r.persona = SKIMMER
                 /\ FGt(aux[1].avg_time_per_material, I(300)))

\* C26 as the code has it: the returned persona is never MASTER with a
\* provided quiz_score below 50 and never SKIMMER with
\* avg_time_per_material > 300; it is DEEP_DIVER with
\* total_materials_viewed < 3 exactly when the classifier predicted SKIMMER
\* with avg_time_per_material > 300, because the persona an override
\* produces is not tried against the remaining rules.
C26_FinalPersonaRespectsGuardsOfPrediction ==
    pc = "applied" =>
        LET r == guardrail_result[1]
        IN  /\ ~(/\ r.persona = MASTER
                 /\ aux[1].quiz_score # None
                 /\ FLt(aux[1].quiz_score[1], I(50)))
            /\ ~(/\ r.persona = SKIMMER
                 /\ FGt(aux[1].avg_time_per_material, I(300)))
            /\ (r.persona = DEEP_DIVER /\ aux[1].total_materials_viewed < 3)
                   <=> (/\ classification[1].persona = SKIMMER
                        /\ FGt(aux[1].avg_time_per_material, I(300))
                        /\ aux[1].total_materials_viewed < 3)

C26_Witness ==
    /\ pc = "applied"
    /\ classification[1].persona = SKIMMER
    /\ aux[1].quiz_score # None
    /\ FLt(aux[1].quiz_score[1], I(50))
    /\ FGt(aux[1].avg_time_per_material, I(300))
    /\ aux[1].total_materials_viewed < 3
    /\ guardrail_result[1].persona = DEEP_DIVER
    /\ guardrail_result[1].was_overridden

\* C27: over any sequence of initialize_components calls, succeeding or
\* failing, interleaved with requests, the service is ready (health reports
\* "healthy", predict-persona does not answer 503) if and only if the most
\* recent initialize_components call returned True.  _initialized holds the
\* value the most recent call returned (first conjunct of the step formula)
\* and nothing else changes it (second conjunct); before the first call,
\* when no feature extractor has been built yet, the service is unready; a
\* failed call after a successful one leaves the earlier classifier
\* referenced and the service unready.
C27_ReadyIffLastInitSucceeded ==
    /\ [](/\ _feature_extractor = None => ~_initialized
          /\ pc = "health_check" =>
                 /\ (response[1].status = "healthy") <=> _initialized
                 /\ response[1].model_loaded <=> _initialized
          /\ pc = "predict_persona" =>
                 (response[1].status_code # 503) <=> _initialized)
    /\ [][/\ (pc = "idle" /\ pc' = "initialize_components") =>
                 /\ _initialized' = response'[1].returned
                 /\ ~response'[1].returned =>
                        _persona_classifier' = _persona_classifier
          /\ pc' # "initialize_components" =>
                 _initialized' = _initialized]_vars

\* C27: initialize_components was called with the empty string as model
\* path: it built a classifier without a model and returned True
C27_ReturnedTrueWithoutModel ==
    /\ pc = "initialize_components"
    /\ response[1].returned
    /\ _initialized
    /\ _persona_classifier # None
    /\ ~is_loaded(_persona_classifier[1])

\* C27: a health check after that call reports "unhealthy"
C27_UnhealthyAfterSuccessfulCall ==
    /\ pc = "health_check"
    /\ _initialized
    /\ ~is_loaded(_persona_classifier[1])
    /\ response[1].status = "unhealthy"
    /\ ~response[1].model_loaded

\* C27: a request after that call is answered 503
C27_UnavailableAfterSuccessfulCall ==
    /\ pc = "predict_persona"
    /\ _initialized
    /\ ~is_loaded(_persona_classifier[1])
    /\ response[1].status_code = 503

\* C27: a health check after a failed re-initialisation of a service whose
\* earlier classifier is still loaded
C27_Witness ==
    /\ pc = "health_check"
    /\ ~_initialized
    /\ _persona_classifier # None
    /\ is_loaded(_persona_classifier[1])
    /\ response[1].status = "unhealthy"

\* C27: a request in the same situation is answered 503
C27_RequestAfterFailedReinit ==
    /\ pc = "predict_persona"
    /\ ~_initialized
    /\ _persona_classifier # None
    /\ is_loaded(_persona_classifier[1])
    /\ response[1].status_code = 503

\* C27: a health check before the first initialisation
C27_BeforeFirstCall ==
    /\ pc = "health_check"
    /\ _feature_extractor = None
    /\ response[1].status = "unhealthy"

\* The weighted scores of the feature vector, each the sum the claim writes,
\* evaluated from left to right in double precision
ChatScore ==
    FAdd(FAdd(FAdd(FMul(Fl(3, 10), features[1].chat_message_ratio),
                   FMul(Fl(3, 10), features[1].messages_per_session)),
              FMul(Fl(2, 10), features[1].session_count_norm)),
         FMul(Fl(2, 10), features[1].feedback_engagement))

MaterialScore ==
    FAdd(FAdd(FAdd(FMul(Fl(3, 10), features[1].time_spent_norm),
                   FMul(Fl(2, 10), features[1].view_count_norm)),
              FMul(Fl(3, 10), features[1].scroll_depth)),
         FMul(Fl(2, 10), features[1].material_engagement_score))

ConsistencyScore == features[1].consistency_score

\* C28: the feature summary buckets a score as "low" when score < 0.33,
\* "medium" when 0.33 <= score < 0.66 and "high" otherwise, where
\* chat_engagement uses 0.3*chat_message_ratio + 0.3*messages_per_session
\* + 0.2*session_count_norm + 0.2*feedback_engagement, material_consumption
\* uses 0.3*time_spent_norm + 0.2*view_count_norm + 0.3*scroll_depth
\* + 0.2*material_engagement_score and activity_consistency uses
\* consistency_score; every feature vector gets exactly one bucket per
\* category.
C28_FeatureSummaryBuckets ==
    pc = "summarised" =>
        LET s == response[1]
        IN  /\ s.chat_engagement \in {"low", "medium", "high"}
            /\ s.material_consumption \in {"low", "medium", "high"}
            /\ s.activity_consistency \in {"low", "medium", "high"}
            /\ (s.chat_engagement = "low")
                   <=> FLt(ChatScore, Fl(33, 100))
            /\ (s.chat_engagement = "high")
                   <=> FGe(ChatScore, Fl(66, 100))
            /\ (s.material_consumption = "low")
                   <=> FLt(MaterialScore, Fl(33, 100))
            /\ (s.material_consumption = "high")
                   <=> FGe(MaterialScore, Fl(66, 100))
            /\ (s.activity_consistency = "low")
                   <=> FLt(ConsistencyScore, Fl(33, 100))
            /\ (s.activity_consistency = "high")
                   <=> FGe(ConsistencyScore, Fl(66, 100))

\* C28: a consistency_score of exactly 0.33 is "medium"
C28_Witness ==
    /\ pc = "summarised"
    /\ features[1].consistency_score = Fl(33, 100)
    /\ response[1].activity_consistency = "medium"

\* C28: a consistency_score of exactly 0.66 is "high"
C28_HighAtBoundary ==
    /\ pc = "summarised"
    /\ features[1].consistency_score = Fl(66, 100)
    /\ response[1].activity_consistency = "high"

\* C28: the chat weights decide: 0.3 * 1 + 0.3 * 1 is "medium", and
\* 0.3 * 1 + 0.3 * 1 + 0.2 * 0.5 is "high"
C28_ChatWeights ==
    /\ pc = "summarised"
    /\ features[1].chat_message_ratio = One
    /\ features[1].messages_per_session = One
    /\ features[1].session_count_norm = Half
    /\ features[1].feedback_engagement = Zero
    /\ response[1].chat_engagement = "high"

\* C28: the material weights decide: 0.2 * 1 + 0.2 * 1 + 0.3 * 0.5 is
\* "medium" although 0.3 * 1 + 0.3 * 1 + 0.2 * 0.5 would be "high"
C28_MaterialWeights ==
    /\ pc = "summarised"
    /\ features[1].view_count_norm = One
    /\ features[1].material_engagement_score = One
    /\ features[1].time_spent_norm = Half
    /\ features[1].scroll_depth = Zero
    /\ response[1].material_consumption = "medium"

\* C28: 0.3 * 0.5 + 0.3 * 0.6 is 0.32999999999999996 in double precision,
\* below 0.33: "low"
C28_ChatSumBelowBoundary ==
    /\ pc = "summarised"
    /\ features[1].chat_message_ratio = Half
    /\ features[1].messages_per_session = Fl(6, 10)
    /\ features[1].session_count_norm = Zero
    /\ features[1].feedback_engagement = Zero
    /\ response[1].chat_engagement = "low"

\* C28: 0.3 + 0.3 + 0.2 * 0.3 is 0.6599999999999999, below 0.66: "medium"
C28_ChatSumBelowUpperBoundary ==
    /\ pc = "summarised"
    /\ features[1].chat_message_ratio = One
    /\ features[1].messages_per_session = One
    /\ features[1].session_count_norm = Fl(3, 10)
    /\ features[1].feedback_engagement = Zero
    /\ response[1].chat_engagement = "medium"

\* C28: 0.2 * 0.5 + 0.3 * 0.3 + 0.2 * 0.7 is 0.32999999999999996: "low"
C28_MaterialSumBelowBoundary ==
    /\ pc = "summarised"
    /\ features[1].time_spent_norm = Zero
    /\ features[1].view_count_norm = Half
    /\ features[1].scroll_depth = Fl(3, 10)
    /\ features[1].material_engagement_score = Fl(7, 10)
    /\ response[1].material_consumption = "low"

\* C28: a consistency_score of 1 - 6.7 / 10 is "low"
C28_ConsistencyBelowBoundary ==
    /\ pc = "summarised"
    /\ features[1].consistency_score = FSub(One, FDiv(Fl(67, 10), I(10)))
    /\ features[1].consistency_score # Fl(33, 100)
    /\ response[1].activity_consistency = "low"

\* C28: a low material score
C28_MaterialLow ==
    /\ pc = "summarised"
    /\ features[1].time_spent_norm = Zero
    /\ features[1].scroll_depth = Half
    /\ features[1].view_count_norm = Half
    /\ features[1].material_engagement_score = Zero
    /\ response[1].material_consumption = "low"

\* C29: the order in which PersonaClassifier turns a FeatureVector into the
\* model's 25-element input array is, position by position, the
\* FEATURE_NAMES order of training (also written to the metadata) and the
\* field order of the FeatureVector schema: the array has 25 elements,
\* element i is the field FEATURE_NAMES[i] and the field FeatureNames[i],
\* the array equals the one the training side builds from the same vector,
\* and every field occurs at exactly one position.
C29_FeatureOrder ==
    pc = "array" =>
        LET arr == response[1]
            fv == features[1]
        IN  /\ Len(arr) = 25
            /\ Len(FEATURE_NAMES) = 25
            /\ Len(FeatureNames) = 25
            /\ \A i \in 1..25 :
                   /\ arr[i] = fv[FEATURE_NAMES[i]]
                   /\ arr[i] = fv[FeatureNames[i]]
                   /\ FEATURE_NAMES[i] = FeatureNames[i]
            /\ arr = feature_vector_to_array(fv)
            /\ \A f \in DOMAIN fv :
                   Cardinality({i \in 1..25 : FEATURE_NAMES[i] = f}) = 1

\* C29: a vector with 1.0 in session_count_norm alone gives an array with
\* 1.0 at the sixth position alone
C29_Witness ==
    /\ pc = "array"
    /\ features[1].session_count_norm = One
    /\ \A f \in FeatureNameSet \ {"session_count_norm"} :
           features[1][f] = Zero
    /\ response[1][6] = One
    /\ \A i \in 1..25 : i # 6 => response[1][i] = Zero

\* C30: for a request whose activity.total_sessions is 0, the pipeline
\* (extract, then apply) raises neither potential_anxious nor
\* potential_burnout: the extracted late_night_ratio is 0.0 and
\* engagement_trend_encoded is 0.5, whatever late_night_sessions,
\* daily_activity_variance, active_days and previous_persona are.
C30_NoSessionsNoFlags ==
    (/\ pc = "predict_persona"
     /\ request[1].behavior_data.activity.total_sessions = 0) =>
        /\ features # None =>
               /\ features[1].late_night_ratio = Zero
               /\ features[1].engagement_trend_encoded = Half
        /\ guardrail_result # None =>
               /\ ~guardrail_result[1].flags.potential_anxious
               /\ ~guardrail_result[1].flags.potential_burnout
               /\ guardrail_result[1].flags.flag_reasons = <<>>
        /\ response[1].status_code = 200 =>
               response[1].body[1].flags = <<>>

\* C30: late-night sessions, a high variance and a previous MASTER, but no
\* sessions: the pipeline ran and raised no flag
C30_Witness ==
    /\ pc = "predict_persona"
    /\ request[1].behavior_data.activity.total_sessions = 0
    /\ request[1].behavior_data.activity.late_night_sessions = 3
    /\ request[1].behavior_data.activity.daily_activity_variance = I(11)
    /\ request[1].behavior_data.activity.active_days = 1
    /\ request[1].previous_persona = Some(MASTER)
    /\ response[1].status_code = 200
    /\ guardrail_result # None
    /\ ~guardrail_result[1].flags.potential_burnout
    /\ ~guardrail_result[1].flags.potential_anxious

\* C30: the same with no active day
C30_NoActiveDay ==
    /\ pc = "predict_persona"
    /\ request[1].behavior_data.activity.total_sessions = 0
    /\ request[1].behavior_data.activity.late_night_sessions = 1
    /\ request[1].behavior_data.activity.active_days = 0
    /\ request[1].previous_persona = Some(MASTER)
    /\ response[1].status_code = 200
    /\ features[1].engagement_trend_encoded = Half
    /\ ~guardrail_result[1].flags.potential_burnout

====
